---- MODULE Spec2Model ----
(***************************************************************************)
(* Model of the wallet snapshot store (BackupManager) and of the identity  *)
(* provisioner (WalletManager.createSubWallets) of the Solana volume bot.  *)
(*                                                                         *)
(* The backup directory is a function from file name to raw file content.  *)
(* A file written by createBackup is named wallets-<timestamp>.json; the   *)
(* model names it by the integer <timestamp>.  Files that were already in  *)
(* the directory when the program started are drawn from a catalogue of    *)
(* older shapes (old format, no timestamp, corrupt).                       *)
(*                                                                         *)
(* Public keys and private keys are small integers.  Keypair.generate()    *)
(* returns a key never seen before: the model draws it from a counter.     *)
(*                                                                         *)
(* The module holds one specification per part of the program: Spec (the   *)
(* store under concurrent createSubWallets calls), ListSpec (the listing   *)
(* calls on a directory that may be unreadable), RecoverySpec              *)
(* (recoverAllFunds), StartSpec (TradingBot.start and stop with every      *)
(* config and funding outcome), BotSpec (start, stop and the               *)
(* executeTradingCycle loops, with starts and stops interleaved), RunSpec  *)
(* (one session after a successful start: the loop with every outcome of   *)
(* its calls, stop and the clock) and UnwindSpec (one session with the     *)
(* cleanupFundsInBackground invocations of stop followed step by step).    *)
(* RunFairSpec and UnwindFairSpec add that every timer fires and every     *)
(* awaited call returns.  MergeSpec adds empty snapshots to a directory,    *)
(* FrameSpec runs every part that touches the store one after the other,   *)
(* and PollSpec follows the balance polling of distributeFunds.  All share *)
(* the variables; each leaves the variables of the other parts as they     *)
(* are after construction.                                                 *)
(***************************************************************************)
EXTENDS Integers, Sequences, FiniteSets, TLC

\* ------------------------------------------------------------------ bounds
MaxCount == 3            \* largest count passed to createSubWallets
MaxTicks == 1            \* clock milliseconds that pass after start-up
MaxMinted == 2           \* identities minted in one run of the model

\* The two places that call createSubWallets: TradingBot.start and the
\* 'create-subwallets' IPC handler.  Their calls may overlap.
Callers == {"start", "ipc"}

\* --------------------------------------------------------- program constants
PlaceholderPublicKey == 900     \* "9q36V4YA4wNbywXzttshrKfAursbwVUv5F4zHZ1DbTFs"
PlaceholderPrivateKey == 901    \* "REPLACE_WITH_YOUR_MAIN_WALLET_PRIVATE_KEY_HERE"

\* A raw JSON value that is absent / undefined (falsy) is modelled by 0 for a
\* timestamp and by -1 for an index.
Absent == 0
UndefinedIndex == 0 - 1

\* ------------------------------------------------------------ sequence helpers
Max(S) == CHOOSE x \in S : \A y \in S : y <= x
Min(S) == CHOOSE x \in S : \A y \in S : x <= y

RECURSIVE KeepIndices(_, _, _)
KeepIndices(s, keep, i) ==
  IF i > Len(s) THEN <<>>
  ELSE (IF i \in keep THEN <<s[i]>> ELSE <<>>) \o KeepIndices(s, keep, i + 1)

\* Array.prototype.slice(0, n)
Slice0(s, n) == SubSeq(s, 1, IF n < Len(s) THEN n ELSE Len(s))

\* ------------------------------------------------------------ raw file content
\* What JSON.parse would give for a file, or parseable = FALSE when the file
\* is not JSON (or makes normalizeBackupFormat throw).
RawWallet(pk, sk, created, idx) ==
  [publicKey |-> pk, privateKey |-> sk, createdAt |-> created, index |-> idx]

RawMain(pk, sk, created) ==
  [publicKey |-> pk, privateKey |-> sk, createdAt |-> created]

RawFile(hasMeta, ts, created, main, subs) ==
  [parseable |-> TRUE, metadata |-> hasMeta, timestamp |-> ts,
   createdAt |-> created, mainWallet |-> main, subWallets |-> subs]

CorruptFile ==
  [parseable |-> FALSE, metadata |-> FALSE, timestamp |-> Absent,
   createdAt |-> Absent, mainWallet |-> <<>>, subWallets |-> <<>>]

\* new Date(x).getTime() of a number x of milliseconds
DateGetTime(x) == x

\* ------------------------------------------------------ normalizeBackupFormat
\* mainWallet is an optional value: <<>> (undefined) or <<m>>.
normalizeBackupFormat(raw, clock) ==
  IF raw.metadata /\ raw.timestamp # Absent /\ raw.mainWallet # <<>>
  THEN [timestamp |-> raw.timestamp, mainWallet |-> raw.mainWallet,
        subWallets |-> raw.subWallets]
  ELSE
    LET timestamp ==
          IF raw.timestamp # Absent \/ raw.createdAt # Absent
          THEN DateGetTime(IF raw.createdAt # Absent THEN raw.createdAt
                           ELSE raw.timestamp)
          ELSE clock
        mainWallet ==
          IF raw.mainWallet # <<>>
          THEN <<RawMain(raw.mainWallet[1].publicKey,
                         raw.mainWallet[1].privateKey,
                         IF raw.mainWallet[1].createdAt # Absent
                         THEN DateGetTime(raw.mainWallet[1].createdAt)
                         ELSE timestamp)>>
          ELSE <<RawMain(PlaceholderPublicKey, PlaceholderPrivateKey, timestamp)>>
        subWallets ==
          [i \in 1..Len(raw.subWallets) |->
             RawWallet(raw.subWallets[i].publicKey,
                       raw.subWallets[i].privateKey,
                       IF raw.subWallets[i].createdAt # Absent
                       THEN DateGetTime(raw.subWallets[i].createdAt)
                       ELSE timestamp,
                       IF raw.subWallets[i].index # UndefinedIndex
                       THEN raw.subWallets[i].index
                       ELSE i - 1)]
    IN [timestamp |-> timestamp, mainWallet |-> mainWallet,
        subWallets |-> subWallets]

\* ------------------------------------------------------------- getBackupFiles
\* fs.readdir: the file names of the directory, in name order.
RECURSIVE readdir(_)
readdir(names) ==
  IF names = {} THEN <<>>
  ELSE LET n == Min(names) IN <<n>> \o readdir(names \ {n})

\* One pass of the for loop of getBackupFiles over one file name: a file that
\* cannot be parsed is logged and skipped.
readOne(dir, filename, clock) ==
  IF dir[filename].parseable
  THEN LET backup == normalizeBackupFormat(dir[filename], clock)
       IN <<[filename |-> filename, timestamp |-> backup.timestamp,
             data |-> backup]>>
  ELSE <<>>

\* Variant: one unreadable file makes the whole listing fail, and the outer
\* catch block returns [].
RECURSIVE readAllOrNothing(_, _, _)
readAllOrNothing(dir, names, clock) ==
  IF \E i \in 1..Len(names) : ~dir[names[i]].parseable THEN <<>>
  ELSE IF names = <<>> THEN <<>>
       ELSE readOne(dir, Head(names), clock)
              \o readAllOrNothing(dir, Tail(names), clock)

RECURSIVE readAll(_, _, _)
readAll(dir, names, clock) ==
  IF names = <<>> THEN <<>>
  ELSE readOne(dir, Head(names), clock) \o readAll(dir, Tail(names), clock)

\* Variant: the comparator a.timestamp - b.timestamp (oldest first).
RECURSIVE insertOldestFirst(_, _)
insertOldestFirst(sorted, x) ==
  IF sorted = <<>> THEN <<x>>
  ELSE IF Head(sorted).timestamp <= x.timestamp
       THEN <<Head(sorted)>> \o insertOldestFirst(Tail(sorted), x)
       ELSE <<x>> \o sorted

\* Array.prototype.sort((a, b) => b.timestamp - a.timestamp): stable, so
\* entries of equal timestamp keep their order.
RECURSIVE insertNewestFirst(_, _)
insertNewestFirst(sorted, x) ==
  IF sorted = <<>> THEN <<x>>
  ELSE IF Head(sorted).timestamp >= x.timestamp
       THEN <<Head(sorted)>> \o insertNewestFirst(Tail(sorted), x)
       ELSE <<x>> \o sorted

RECURSIVE sortFrom(_, _)
sortFrom(sorted, rest) ==
  IF rest = <<>> THEN sorted
  ELSE sortFrom(insertNewestFirst(sorted, Head(rest)), Tail(rest))

\* Variant: the listing is returned in readdir order, unsorted.
sortNothing(backupFiles) == backupFiles

sortNewestFirst(backupFiles) == sortFrom(<<>>, backupFiles)

getBackupFiles(dir, clock) ==
  sortNewestFirst(readAll(dir, readdir(DOMAIN dir), clock))

getLatestBackup(dir, clock) ==
  LET backupFiles == getBackupFiles(dir, clock)
  IN IF Len(backupFiles) > 0 THEN <<backupFiles[1]>> ELSE <<>>

\* --------------------------------------------------- getAllWalletsFromBackups
tagMain(backupFile) ==
  IF backupFile.data.mainWallet # <<>>
  THEN <<[publicKey |-> backupFile.data.mainWallet[1].publicKey,
          privateKey |-> backupFile.data.mainWallet[1].privateKey,
          createdAt |-> backupFile.data.mainWallet[1].createdAt,
          backupFile |-> backupFile.filename,
          timestamp |-> backupFile.timestamp]>>
  ELSE <<>>

tagSubs(backupFile) ==
  [i \in 1..Len(backupFile.data.subWallets) |->
     [publicKey |-> backupFile.data.subWallets[i].publicKey,
      privateKey |-> backupFile.data.subWallets[i].privateKey,
      createdAt |-> backupFile.data.subWallets[i].createdAt,
      index |-> backupFile.data.subWallets[i].index,
      backupFile |-> backupFile.filename,
      timestamp |-> backupFile.timestamp]]

RECURSIVE flattenMain(_)
flattenMain(backupFiles) ==
  IF backupFiles = <<>> THEN <<>>
  ELSE tagMain(Head(backupFiles)) \o flattenMain(Tail(backupFiles))

RECURSIVE flattenSubs(_)
flattenSubs(backupFiles) ==
  IF backupFiles = <<>> THEN <<>>
  ELSE tagSubs(Head(backupFiles)) \o flattenSubs(Tail(backupFiles))

\* Variant: no deduplication.
dedupeNothing(array) == array

\* array.filter((wallet, index, array) =>
\*   array.findIndex(w => w.publicKey === wallet.publicKey) === index)
dedupeByPublicKey(array) ==
  KeepIndices(array,
              {i \in 1..Len(array) :
                 \A j \in 1..(i - 1) : array[j].publicKey # array[i].publicKey},
              1)

\* Variant: only the newest snapshot is looked at (replace, not union).
mergeLatestOnly(backupFiles) ==
  [mainWallets |-> dedupeByPublicKey(flattenMain(Slice0(backupFiles, 1))),
   subWallets |-> dedupeByPublicKey(flattenSubs(Slice0(backupFiles, 1)))]

mergeBackups(backupFiles) ==
  [mainWallets |-> dedupeByPublicKey(flattenMain(backupFiles)),
   subWallets |-> dedupeByPublicKey(flattenSubs(backupFiles))]

getAllWalletsFromBackups(dir, clock) == mergeBackups(getBackupFiles(dir, clock))

\* ------------------------------------------------------------- createBackup
\* fs.writeFile(filepath, ...): creates the file or replaces its content.
writeFile(dir, filename, content) ==
  [n \in (DOMAIN dir) \cup {filename} |->
     IF n = filename THEN content ELSE dir[n]]

\* The backup object of createBackup for walletData = { subWallets }: a
\* timestamp, the sub-wallets, metadata, and no mainWallet.  The provenance
\* fields backupFile/timestamp that existing wallets carry are written too,
\* but no reader looks at them (normalizeBackupFormat and the spread in
\* getAllWalletsFromBackups replace them), so the model leaves them out.
backupOf(timestamp, subWallets) ==
  RawFile(TRUE, timestamp, Absent, <<>>,
          [i \in 1..Len(subWallets) |->
             RawWallet(subWallets[i].publicKey, subWallets[i].privateKey,
                       subWallets[i].createdAt, subWallets[i].index)])

\* const allWallets = [...existingWallets, ...newWallets]
updateBackupWithNewWallets(existingWallets, newWallets) ==
  existingWallets \o newWallets

\* --------------------------------------------------------- createSubWallets
\* Keypair.generate(): the n-th key pair generated by the program.
SecretOf(publicKey) == publicKey + 500

\* Variant: currentSubWalletCount > count.
hasMoreThanEnough(currentSubWalletCount, cnt) == currentSubWalletCount > cnt

\* if (currentSubWalletCount >= count)
hasEnough(currentSubWalletCount, cnt) == currentSubWalletCount >= cnt

walletsToCreate(cnt, currentSubWalletCount) == cnt - currentSubWalletCount

generateWallets(firstKey, howMany, currentSubWalletCount, clock) ==
  [i \in 1..howMany |->
     RawWallet(firstKey + i - 1, SecretOf(firstKey + i - 1), clock,
               currentSubWalletCount + i - 1)]

\* Variant: the slice(0, count) is missing.
selectAllWallets(wallets, cnt) ==
  [i \in 1..Len(wallets) |->
     [publicKey |-> wallets[i].publicKey, privateKey |-> wallets[i].privateKey,
      balance |-> 0, createdAt |-> wallets[i].createdAt,
      index |-> wallets[i].index]]

\* .slice(0, count).map(wallet => ({ publicKey, privateKey, balance: 0, ... }))
selectWallets(wallets, cnt) ==
  [i \in 1..Len(Slice0(wallets, cnt)) |->
     [publicKey |-> wallets[i].publicKey, privateKey |-> wallets[i].privateKey,
      balance |-> 0, createdAt |-> wallets[i].createdAt,
      index |-> wallets[i].index]]

PublicKeys(wallets) == [i \in 1..Len(wallets) |-> wallets[i].publicKey]

\* ------------------------------------------------ files found at start-up
\* Files that can lie in wallet-backups before the program runs: a file that
\* is not JSON, an old-format file with neither timestamp nor owner, an
\* old-format file dated by createdAt that lists one key twice, and a
\* new-format file with owner.  Keys 101 and 102 occur in several files with
\* different secret material.
PreexistingNames == {0 - 2, 0 - 1, 1, 2}

Preexisting ==
  [n \in PreexistingNames |->
     CASE n = 0 - 2 -> CorruptFile
       [] n = 0 - 1 -> RawFile(FALSE, Absent, Absent, <<>>,
                               <<RawWallet(101, 11, Absent, UndefinedIndex)>>)
       [] n = 1 -> RawFile(FALSE, Absent, 1, <<RawMain(800, 801, Absent)>>,
                           <<RawWallet(101, 12, Absent, UndefinedIndex),
                             RawWallet(102, 21, 1, 0),
                             RawWallet(102, 22, 1, 1)>>)
       [] n = 2 -> RawFile(TRUE, 2, Absent, <<RawMain(800, 801, 2)>>,
                           <<RawWallet(102, 23, 2, 0)>>)]

\* The directories the program is started on.
InitialStores == {{}, {0 - 2, 0 - 1}, {1, 2}, PreexistingNames}

\* The program starts after every file found at start-up was written.
StartTime == Max(PreexistingNames) + 1

\* ---------------------------------------------------------------- the state
VARIABLES
  files,        \* the wallet-backups directory: file name -> raw content
  now,          \* Date.now()
  generated,    \* number of key pairs generated so far
  pc,           \* per caller: "idle", or "writing" while fs.writeFile is awaited
  count,        \* per caller: the argument count of the call under way
  existing,     \* per caller: existingWallets.subWallets
  newWallets,   \* per caller: newWallets
  timestamp,    \* per caller: const timestamp of createBackup
  returned,     \* the argument and the value of the call that returned last
  base,         \* history, per caller: the call before this one, if it is
                \* one this call must repeat
  overlapped    \* history, per caller: another caller's snapshot was
                \* written while this call was under way

vars == <<files, now, generated, pc, count, existing, newWallets, timestamp,
          returned, base, overlapped>>

\* State of the operations outside the snapshot store.  The specification
\* of the store leaves it as it is at start-up.
VARIABLES
  listed,       \* the value the last listing call returned, and whether the
                \* directory could be read during that call
  recoverPc,    \* position of the recoverAllFunds call: "idle", "reading",
                \* "loop" (between two workers), "worker", "done"
  mainWalletPrivateKey,   \* argument of recoverAllFunds
  tokenAddress,           \* argument of recoverAllFunds: TRUE when supplied
  recoverWallets,         \* wallets.subWallets of recoverAllFunds
  workerIndex,  \* loop index i of recoverAllFunds, counted from 1
  current,      \* the worker under way: its balance on the ledger and the
                \* call of its processing that fails
  transactions, \* number of signatures in transactions
  totalRecovered,         \* totalRecovered, in lamports
  recovery,     \* the value recoverAllFunds returned
  effects,      \* history: snapshot reads and balance queries of the call
  transfers,    \* history: the transfers the call submitted
  started,      \* history: the workers whose processing has begun
  outcomes,     \* history: the workers whose processing has ended, and
                \* whether the delay before the next worker was awaited
  ledger,       \* what the ledger holds for the workers, as far as the calls
                \* made since the last deposit determine it: key -> lamports
  follows       \* history: the call before this one returned with no failed
                \* call, and no deposit was made since

NoListing == [op |-> "none", readable |-> TRUE, value |-> <<>>]
NoCredential == [length |-> 0, decodable |-> FALSE]
NoWorker == [balance |-> 0, fault |-> "none", sold |-> FALSE]
NoLedger == [k \in {} |-> 0]
NoRecovery == [done |-> FALSE, success |-> FALSE, recoveredAmount |-> 0,
               transactions |-> 0, error |-> "none"]
NoEffects == [reads |-> 0, queries |-> 0]

recoveryVars == <<recoverPc, mainWalletPrivateKey, tokenAddress,
                  recoverWallets, workerIndex, current, transactions,
                  totalRecovered, recovery, effects, transfers, started,
                  outcomes, ledger, follows>>

\* State of the trading bot (TradingBot) and of the timers and loops it
\* has started.
VARIABLES
  isRunning,    \* this.isRunning
  config,       \* this.config: NoConfig or the config of the last start()
                \* that passed the license check
  stats,        \* this.stats: cyclesCompleted, startTime, activeWallets,
                \* successRate
  activeSubWallets,       \* this.subWallets: the public keys, in order
  startPc,      \* position of the start() call: "idle", "provisioning"
                \* (getAllWallets awaited), "funding" (distributeFunds awaited)
  startResult,  \* the value the last start() returned
  stopResult,   \* the value the last stop() returned, whether that call
                \* launched cleanupFundsInBackground, and whether no start()
                \* has got past the running check since (latest)
  timers,       \* number of pending setTimeout(executeTradingCycle, 2500)
  loops,        \* the executeTradingCycle invocations that entered the
                \* while loop, in the order of their timers
  funding,      \* history: the last distributeToSubWallets call
  unwinds       \* the cleanupFundsInBackground invocations under way, in
                \* the order of the stop() calls that launched them

NoConfig == [set |-> FALSE]
NoStats == [cyclesCompleted |-> 0, startTime |-> 0, activeWallets |-> 0,
            successRate |-> 0]
NoStart == [returned |-> FALSE, success |-> FALSE, error |-> "none"]
\* State of the balance polling at the end of distributeFunds.  start()
\* awaits it as one step of its funding; the steps of the polling loop are
\* followed on their own.
VARIABLES
  poll          \* where the polling is suspended (pc: "idle", "arrive" for
                \* the 3 s timer, "balance" while getWalletBalance of the
                \* worker at index wallet is awaited, "retry" for the 2 s
                \* timer, "done"), and its locals attempts and
                \* allWalletsReady

NoPoll == [pc |-> "idle", attempts |-> 0, allWalletsReady |-> FALSE,
           wallet |-> 0]

NoStop == [returned |-> FALSE, success |-> FALSE, unwind |-> FALSE,
           latest |-> FALSE]
NoFunding == [called |-> FALSE, balance |-> 0, submitted |-> <<>>]

botVars == <<isRunning, config, stats, activeSubWallets, startPc,
             startResult, stopResult, timers, loops, funding, unwinds>>

\* The state of a TradingBot after its constructor.
BotIdle ==
  /\ isRunning = FALSE
  /\ config = NoConfig
  /\ stats = NoStats
  /\ activeSubWallets = <<>>
  /\ startPc = "idle"
  /\ startResult = NoStart
  /\ stopResult = NoStop
  /\ timers = 0
  /\ loops = <<>>
  /\ funding = NoFunding
  /\ unwinds = <<>>

outsideStore == <<listed, recoveryVars, botVars, poll>>

\* No recoverAllFunds call has been made.
RecoveryIdle ==
  /\ recoverPc = "idle"
  /\ mainWalletPrivateKey = NoCredential
  /\ tokenAddress = FALSE
  /\ recoverWallets = <<>>
  /\ workerIndex = 1
  /\ current = NoWorker
  /\ transactions = 0
  /\ totalRecovered = 0
  /\ recovery = NoRecovery
  /\ effects = NoEffects
  /\ transfers = <<>>
  /\ started = <<>>
  /\ outcomes = <<>>
  /\ ledger = NoLedger
  /\ follows = FALSE

OutsideStoreIdle ==
  /\ listed = NoListing
  /\ poll = NoPoll
  /\ RecoveryIdle
  /\ BotIdle

NoReturn == [count |-> 0, success |-> FALSE, wallets |-> <<>>,
             error |-> FALSE, emitted |-> FALSE, isolated |-> FALSE,
             repeated |-> FALSE]

\* The call before a call with argument cnt, if that call succeeded with the
\* same argument and no other caller's write fell into it.
Comparable(cnt) ==
  IF returned.success /\ returned.isolated /\ returned.count = cnt
  THEN returned
  ELSE NoReturn

\* No createSubWallets call is under way and none has returned.
StoreIdle ==
  /\ now = StartTime
  /\ generated = 0
  /\ pc = [p \in Callers |-> "idle"]
  /\ count = [p \in Callers |-> 0]
  /\ existing = [p \in Callers |-> <<>>]
  /\ newWallets = [p \in Callers |-> <<>>]
  /\ timestamp = [p \in Callers |-> 0]
  /\ returned = NoReturn
  /\ base = [p \in Callers |-> NoReturn]
  /\ overlapped = [p \in Callers |-> FALSE]

Init ==
  /\ \E names \in InitialStores :
       files = [n \in names |-> Preexisting[n]]
  /\ StoreIdle
  /\ OutsideStoreIdle

\* The clock advances by one millisecond.
Tick ==
  /\ now < StartTime + MaxTicks
  /\ now' = now + 1
  /\ UNCHANGED <<files, generated, pc, count, existing, newWallets, timestamp,
                 returned, base, overlapped>>
  /\ UNCHANGED outsideStore

\* createSubWallets(cnt) reads the reconciled set and
\* currentSubWalletCount >= count: the first count existing sub-wallets are
\* returned.  The awaited read is one step with the call: a call that starts
\* earlier and reads now behaves as a call made now.
returnExisting(p, cnt) ==
  LET existingWallets == getAllWalletsFromBackups(files, now)
      selectedWallets == selectWallets(existingWallets.subWallets, cnt)
  IN /\ pc[p] = "idle"
     /\ hasEnough(Len(existingWallets.subWallets), cnt)
     /\ returned' = [count |-> cnt, success |-> TRUE,
                     wallets |-> selectedWallets, error |-> FALSE,
                     emitted |-> FALSE, isolated |-> TRUE,
                     repeated |-> Comparable(cnt).emitted]
     /\ UNCHANGED <<files, now, generated, pc, count, existing, newWallets,
                    timestamp, base, overlapped>>
     /\ UNCHANGED outsideStore

\* createSubWallets(cnt) reads the reconciled set and there are too few
\* sub-wallets: the missing ones are generated, createBackup takes its
\* timestamp and starts fs.writeFile, all without an await in between.
generateNewWallets(p, cnt) ==
  LET existingWallets == getAllWalletsFromBackups(files, now)
      currentSubWalletCount == Len(existingWallets.subWallets)
      toCreate == walletsToCreate(cnt, currentSubWalletCount)
  IN /\ pc[p] = "idle"
     /\ ~hasEnough(currentSubWalletCount, cnt)
     /\ generated + toCreate <= MaxMinted
     /\ pc' = [pc EXCEPT ![p] = "writing"]
     /\ count' = [count EXCEPT ![p] = cnt]
     /\ existing' = [existing EXCEPT ![p] = existingWallets.subWallets]
     /\ newWallets' = [newWallets EXCEPT ![p] =
                         generateWallets(generated + 1, toCreate,
                                         currentSubWalletCount, now)]
     /\ generated' = generated + toCreate
     /\ timestamp' = [timestamp EXCEPT ![p] = now]
     /\ base' = [base EXCEPT ![p] = Comparable(cnt)]
     /\ overlapped' = [overlapped EXCEPT ![p] = FALSE]
     /\ UNCHANGED <<files, now, returned>>
     /\ UNCHANGED outsideStore

\* fs.writeFile succeeds: the snapshot is stored under wallets-<timestamp>,
\* 'wallet-update' is emitted and existing + new wallets are returned.
createBackupSucceeds(p) ==
  LET allWallets == updateBackupWithNewWallets(existing[p], newWallets[p])
      allSubWallets == selectWallets(existing[p] \o newWallets[p], count[p])
  IN /\ pc[p] = "writing"
     /\ files' = writeFile(files, timestamp[p],
                           backupOf(timestamp[p], allWallets))
     /\ returned' = [count |-> count[p], success |-> TRUE,
                     wallets |-> allSubWallets, error |-> FALSE,
                     emitted |-> TRUE, isolated |-> ~overlapped[p],
                     repeated |-> FALSE]
     /\ pc' = [pc EXCEPT ![p] = "idle"]
     /\ count' = [count EXCEPT ![p] = 0]
     /\ existing' = [existing EXCEPT ![p] = <<>>]
     /\ newWallets' = [newWallets EXCEPT ![p] = <<>>]
     /\ timestamp' = [timestamp EXCEPT ![p] = 0]
     /\ base' = [q \in Callers |-> NoReturn]
     /\ overlapped' = [q \in Callers |-> q # p /\ pc[q] = "writing"]
     /\ UNCHANGED <<now, generated>>
     /\ UNCHANGED outsideStore

\* Variant: the error of createBackup is swallowed and the wallets are
\* returned as if they had been stored.
createBackupFailsSilently(p) ==
  /\ pc[p] = "writing"
  /\ returned' = [count |-> count[p], success |-> TRUE,
                  wallets |-> selectWallets(existing[p] \o newWallets[p],
                                            count[p]),
                  error |-> FALSE, emitted |-> FALSE, isolated |-> FALSE,
                  repeated |-> FALSE]
  /\ pc' = [pc EXCEPT ![p] = "idle"]
  /\ count' = [count EXCEPT ![p] = 0]
  /\ existing' = [existing EXCEPT ![p] = <<>>]
  /\ newWallets' = [newWallets EXCEPT ![p] = <<>>]
  /\ timestamp' = [timestamp EXCEPT ![p] = 0]
  /\ base' = [base EXCEPT ![p] = NoReturn]
  /\ overlapped' = [overlapped EXCEPT ![p] = FALSE]
  /\ UNCHANGED <<files, now, generated>>
  /\ UNCHANGED outsideStore

\* fs.writeFile rejects: createBackup throws, the catch block of
\* createSubWallets returns { success: false, error }.
createBackupFails(p) ==
  /\ pc[p] = "writing"
  /\ returned' = [count |-> count[p], success |-> FALSE, wallets |-> <<>>,
                  error |-> TRUE, emitted |-> FALSE, isolated |-> FALSE,
                  repeated |-> FALSE]
  /\ pc' = [pc EXCEPT ![p] = "idle"]
  /\ count' = [count EXCEPT ![p] = 0]
  /\ existing' = [existing EXCEPT ![p] = <<>>]
  /\ newWallets' = [newWallets EXCEPT ![p] = <<>>]
  /\ timestamp' = [timestamp EXCEPT ![p] = 0]
  /\ base' = [base EXCEPT ![p] = NoReturn]
  /\ overlapped' = [overlapped EXCEPT ![p] = FALSE]
  /\ UNCHANGED <<files, now, generated>>
  /\ UNCHANGED outsideStore

Next ==
  \/ Tick
  \/ \E p \in Callers, cnt \in 0..MaxCount : returnExisting(p, cnt)
  \/ \E p \in Callers, cnt \in 0..MaxCount : generateNewWallets(p, cnt)
  \/ \E p \in Callers : createBackupSucceeds(p)
  \/ \E p \in Callers : createBackupFails(p)

Spec == Init /\ [][Next]_vars

\* ======================================================== properties
ParseableNames == {n \in DOMAIN files : files[n].parseable}
Snapshot(n) == normalizeBackupFormat(files[n], now)
KeysIn(wallets) == {wallets[i].publicKey : i \in 1..Len(wallets)}
StoredKeys == UNION {KeysIn(files[n].subWallets) : n \in ParseableNames}
Listing == getBackupFiles(files, now)
Reconciled == getAllWalletsFromBackups(files, now)
HoldersOf(key) == {n \in ParseableNames : key \in KeysIn(files[n].subWallets)}

\* C1: reconciliation is a union.  Every public key that occurs in the
\* subWallets of some parseable snapshot of the store occurs in the worker
\* set returned by getAllWalletsFromBackups, also when newer snapshots omit it.
C1_ReconciliationIsUnion == StoredKeys \subseteq KeysIn(Reconciled.subWallets)

\* C1 witness: the newest snapshot was written by createBackup and omits a
\* key of an older snapshot; the key is in the reconciled worker set.
C1_Witness ==
  /\ Len(Listing) >= 2
  /\ Listing[1].filename >= StartTime
  /\ \E key \in StoredKeys :
       /\ key \notin KeysIn(Listing[1].data.subWallets)
       /\ key \in KeysIn(Reconciled.subWallets)

\* C2: the worker set returned by getAllWalletsFromBackups holds exactly one
\* record per distinct public key: no key occurs twice and its size is the
\* number of distinct public keys over all snapshots.
C2_OneRecordPerKey ==
  /\ \A i, j \in 1..Len(Reconciled.subWallets) :
       Reconciled.subWallets[i].publicKey = Reconciled.subWallets[j].publicKey
         => i = j
  /\ Len(Reconciled.subWallets) = Cardinality(StoredKeys)

\* C2 witness: some public key occurs in two different snapshots, one of
\* them written by createBackup.
C2_Witness ==
  \E key \in StoredKeys :
     /\ Cardinality(HoldersOf(key)) >= 2
     /\ \E n \in HoldersOf(key) : n >= StartTime
     /\ Len(Reconciled.subWallets) = Cardinality(StoredKeys)

\* C3: newest snapshot wins.  The record kept for a public key carries the
\* greatest timestamp among the snapshots that hold the key, and its
\* privateKey, createdAt and index are those of an occurrence in the snapshot
\* it names, which has that timestamp.
C3_NewestSnapshotWins ==
  \A i \in 1..Len(Reconciled.subWallets) :
     LET r == Reconciled.subWallets[i]
     IN /\ r.timestamp = Max({Snapshot(n).timestamp : n \in HoldersOf(r.publicKey)})
        /\ r.backupFile \in HoldersOf(r.publicKey)
        /\ Snapshot(r.backupFile).timestamp = r.timestamp
        /\ \E j \in 1..Len(Snapshot(r.backupFile).subWallets) :
             LET w == Snapshot(r.backupFile).subWallets[j]
             IN /\ w.publicKey = r.publicKey
                /\ w.privateKey = r.privateKey
                /\ w.createdAt = r.createdAt
                /\ w.index = r.index

\* C3 witness: a key is held by two snapshots of different timestamps with
\* different secret material, and the kept record is the newer one.
C3_Witness ==
  \E i \in 1..Len(Reconciled.subWallets) :
     \E n \in HoldersOf(Reconciled.subWallets[i].publicKey) :
        /\ Snapshot(n).timestamp < Reconciled.subWallets[i].timestamp
        /\ \A j \in 1..Len(files[n].subWallets) :
             files[n].subWallets[j].publicKey = Reconciled.subWallets[i].publicKey
               => files[n].subWallets[j].privateKey
                    # Reconciled.subWallets[i].privateKey

\* A step in which the awaited write of caller p ends.
WriteEnds(p) == pc[p] = "writing" /\ pc'[p] = "idle"

\* A step in which a call returns without having written.
ReturnsExisting == returned' # returned /\ pc' = pc

\* C4: no identity is ever lost.  What a successful createSubWallets returns
\* is in the reconciled worker set when it returns, and no later step, under
\* any interleaving of calls, takes a key out of the reconciled worker set.
C4_NoIdentityLost ==
  [][LET before == KeysIn(getAllWalletsFromBackups(files, now).subWallets)
         after == KeysIn(getAllWalletsFromBackups(files', now').subWallets)
     IN /\ before \subseteq after
        /\ returned'.success => KeysIn(returned'.wallets) \subseteq after]_vars

\* C5: the snapshot store is append-only.  No step overwrites, changes or
\* removes a stored snapshot, and a successful createBackup adds exactly one
\* new snapshot.
C5_AppendOnly ==
  [][/\ \A n \in DOMAIN files : n \in DOMAIN files' /\ files'[n] = files[n]
     /\ (\E p \in Callers : WriteEnds(p) /\ returned'.emitted) =>
          Cardinality(DOMAIN files') = Cardinality(DOMAIN files) + 1]_vars

\* C6: a successful createSubWallets(count) returns exactly count identities
\* with pairwise distinct public keys.
C6_ExactlyCountDistinct ==
  returned.success =>
    /\ Len(returned.wallets) = returned.count
    /\ \A i, j \in 1..Len(returned.wallets) :
         returned.wallets[i].publicKey = returned.wallets[j].publicKey
           => i = j

\* C6 witness: a call with fewer existing workers than count has minted the
\* rest and returned existing and new identities together.
C6_Witness ==
  /\ returned.success /\ returned.emitted
  /\ returned.count >= 2
  /\ \E i, j \in 1..Len(returned.wallets) :
       /\ returned.wallets[i].publicKey \in {101, 102}
       /\ returned.wallets[j].publicKey \notin {101, 102}

\* C7: createSubWallets(count) is idempotent.  A call that follows a
\* successful call with the same count, with no snapshot written by anyone
\* else from the start of the first call to the end of the second, succeeds,
\* returns the same sequence of public keys and appends no snapshot.
C7_Idempotent ==
  [][/\ (ReturnsExisting /\ Comparable(returned'.count).success) =>
          /\ returned'.success
          /\ PublicKeys(returned'.wallets) = PublicKeys(returned.wallets)
          /\ files' = files
     /\ \A p \in Callers :
          (WriteEnds(p) /\ base[p].success) =>
            /\ returned'.success
            /\ PublicKeys(returned'.wallets) = PublicKeys(base[p].wallets)
            /\ files' = files]_vars

\* C7 witness: the first of the two calls minted identities and appended a
\* snapshot, the second call with the same count has returned them.
C7_Witness ==
  /\ returned.repeated /\ returned.success /\ ~returned.emitted
  /\ returned.count >= 1
  /\ \E i \in 1..Len(returned.wallets) :
       returned.wallets[i].publicKey \notin {101, 102}

C9_CorruptSkipped ==
  /\ Len(Listing) = Cardinality(ParseableNames)
  /\ {Listing[i].filename : i \in 1..Len(Listing)} = ParseableNames
  /\ \A i \in 1..Len(Listing) :
       Listing[i].data = Snapshot(Listing[i].filename)

\* C9 witness: the directory holds an unparseable file and parseable files,
\* one of them written by createBackup.
C9_Witness ==
  /\ \E n \in DOMAIN files : ~files[n].parseable
  /\ \E n \in ParseableNames : n >= StartTime
  /\ Len(Listing) >= 2

\* C10: getBackupFiles returns the snapshots newest first (timestamps never
\* increase along the list), and getLatestBackup returns the snapshot with
\* the greatest timestamp, or null when there is no snapshot.
C10_NewestFirst ==
  /\ \A i \in 1..(Len(Listing) - 1) :
       Listing[i].timestamp >= Listing[i + 1].timestamp
  /\ IF ParseableNames = {}
     THEN getLatestBackup(files, now) = <<>>
     ELSE /\ Len(getLatestBackup(files, now)) = 1
          /\ getLatestBackup(files, now)[1].timestamp
               = Max({Snapshot(n).timestamp : n \in ParseableNames})

\* C10 witness: several snapshots of different timestamps, the newest of
\* them written by createBackup and last in directory order.
C10_Witness ==
  /\ Len(Listing) >= 2
  /\ Listing[1].filename >= StartTime
  /\ Listing[1].timestamp > Listing[Len(Listing)].timestamp

\* ------------------------------------------------------- the listing calls
\* getBackupFiles with its outer try/catch: when the directory cannot be
\* read, ensureBackupDirectory or readdir throws and [] is returned.
getBackupFilesCaught(dir, readable, clock) ==
  IF readable THEN getBackupFiles(dir, clock) ELSE <<>>

\* WalletInfo of a reconciled owner record and of a reconciled worker record.
mainWalletInfo(wallet) ==
  [publicKey |-> wallet.publicKey, privateKey |-> wallet.privateKey,
   balance |-> 0, createdAt |-> wallet.createdAt,
   backupFile |-> wallet.backupFile]

subWalletInfo(wallet) ==
  [publicKey |-> wallet.publicKey, privateKey |-> wallet.privateKey,
   balance |-> 0, createdAt |-> wallet.createdAt,
   backupFile |-> wallet.backupFile, index |-> wallet.index]

\* WalletManager.getAllWallets: the reconciled set as WalletInfo records.
getAllWallets(dir, readable, clock) ==
  LET walletsFromBackups ==
        mergeBackups(getBackupFilesCaught(dir, readable, clock))
      mainWallets == [i \in 1..Len(walletsFromBackups.mainWallets) |->
                        mainWalletInfo(walletsFromBackups.mainWallets[i])]
      subWallets == [i \in 1..Len(walletsFromBackups.subWallets) |->
                       subWalletInfo(walletsFromBackups.subWallets[i])]
  IN [mainWallets |-> mainWallets, subWallets |-> subWallets,
      totalWallets |-> Len(mainWallets) + Len(subWallets)]

\* Every variable but listed.
outsideListing == <<vars, recoveryVars, botVars, poll>>

allVars == <<vars, outsideStore>>

\* The listing calls are checked on every directory of files found at
\* start-up.
ListInit ==
  /\ \E names \in SUBSET PreexistingNames :
       files = [n \in names |-> Preexisting[n]]
  /\ StoreIdle
  /\ OutsideStoreIdle

\* getBackupFiles() is called and returns.
callGetBackupFiles(readable) ==
  /\ listed' = [op |-> "getBackupFiles", readable |-> readable,
                value |-> getBackupFilesCaught(files, readable, now)]
  /\ UNCHANGED outsideListing

\* getAllWallets() is called and returns.
callGetAllWallets(readable) ==
  /\ listed' = [op |-> "getAllWallets", readable |-> readable,
                value |-> getAllWallets(files, readable, now)]
  /\ UNCHANGED outsideListing

ListNext ==
  \/ Tick
  \/ \E readable \in BOOLEAN : callGetBackupFiles(readable)
  \/ \E readable \in BOOLEAN : callGetAllWallets(readable)

ListSpec == ListInit /\ [][ListNext]_allVars

\* Snapshots with no owner and no worker, by file name: one as createBackup
\* writes it for { subWallets: [] } (metadata, timestamp, no mainWallet),
\* and one in the old format with nothing but an empty worker array.
EmptySnapshots ==
  (StartTime + MaxTicks + 1 :> backupOf(StartTime + MaxTicks + 1, <<>>))
    @@ (0 - 3 :> RawFile(FALSE, Absent, Absent, <<>>, <<>>))

\* A snapshot with no owner and no worker is put into the directory.
addEmptySnapshot(filename) ==
  /\ filename \notin DOMAIN files
  /\ files' = writeFile(files, filename, EmptySnapshots[filename])
  /\ UNCHANGED <<now, generated, pc, count, existing, newWallets, timestamp,
                 returned, base, overlapped>>
  /\ UNCHANGED outsideStore

\* The reconciliation on every directory of files found at start-up, to
\* which snapshots without owner and workers are added.
MergeNext ==
  \/ Tick
  \/ \E filename \in DOMAIN EmptySnapshots : addEmptySnapshot(filename)
  \/ callGetAllWallets(TRUE)

MergeSpec == ListInit /\ [][MergeNext]_allVars

\* What a listing call returns on a readable directory with no file in it.
EmptyStoreValue(op) ==
  IF op = "getBackupFiles"
  THEN getBackupFilesCaught(<<>>, TRUE, now)
  ELSE getAllWallets(<<>>, TRUE, now)

\* C11: when the backup directory cannot be read, the listing call ends with
\* a result that its caller can tell apart from the result for an empty
\* store.
C11_FailureToldApart ==
  (listed.op # "none" /\ ~listed.readable) =>
    listed.value # EmptyStoreValue(listed.op)

\* ---------------------------------------------------------- recoverAllFunds
MinKeyLength == 50       \* mainWalletPrivateKey.length < 50
DustLamports == 1000     \* balance > 0.000001, in lamports
FeeLamports == 1000      \* feeInSol = 0.000001, in lamports

\* Owner credentials a caller may pass: the empty string, a string of 49
\* characters, strings of 50 and of 88 characters that bs58.decode or
\* Keypair.fromSecretKey rejects, and an encoded 64-byte secret key.
Credentials ==
  {[length |-> 0, decodable |-> FALSE],
   [length |-> MinKeyLength - 1, decodable |-> FALSE],
   [length |-> MinKeyLength, decodable |-> FALSE],
   [length |-> 88, decodable |-> FALSE],
   [length |-> 88, decodable |-> TRUE]}

\* Ledger balances of a worker, in lamports: nothing, exactly the dust
\* threshold, one lamport more, and five lamports more.
Balances == {0, DustLamports, DustLamports + 1, DustLamports + 5}

\* The call of a worker's processing that throws: none, Keypair.fromSecretKey
\* of the worker key, connection.getBalance (caught inside getBalance, which
\* then returns 0), getLatestBlockhash or sendRawTransaction, and
\* confirmTransaction.
Faults == {"none", "decode", "balance", "send", "confirm"}

\* !mainWalletPrivateKey || mainWalletPrivateKey.length < 50
tooShort(key) == key.length = 0 \/ key.length < MinKeyLength

\* Variant: any string is taken for an encoded secret key.
decodesAnything(key) == TRUE

\* Keypair.fromSecretKey(bs58.decode(mainWalletPrivateKey)) does not throw.
decodes(key) == key.decodable

\* Variant: a transfer is built whatever the balance.
transfersAnyBalance(balance) == TRUE

\* The balances of Balances for which the product
\* (balance / LAMPORTS_PER_SOL - 0.000001) * LAMPORTS_PER_SOL, computed in
\* IEEE-754 doubles, falls below the whole number balance - 1000:
\* 1001 lamports give 1.000000000000075, 1005 lamports 4.999999999999952.
RoundedDown == {DustLamports + 5}

\* Variant: a sweep moves one lamport.
transfersOneLamport(balance) == 1

\* transferLamports = Math.floor(transferableAmount * LAMPORTS_PER_SOL), where
\* transferableAmount = balance - feeInSol is a double in SOL.
transferLamports(balance) ==
  IF balance \in RoundedDown
  THEN balance - FeeLamports - 1
  ELSE balance - FeeLamports

\* balance > 0.000001 and transferLamports > 0
shouldTransfer(balance) ==
  balance > DustLamports /\ transferLamports(balance) > 0

\* Variant: the loop steps over every second worker.
skipWorker(idx) == idx + 2

\* The for loop's i++.
nextWorker(idx) == idx + 1

\* Variant: an error of one worker ends the loop.
abortAfterThrow(idx, total) == total + 1

\* The catch block of the loop body: continue with the next wallet.
afterThrow(idx, total) == nextWorker(idx)

\* The fee the network charges the fee payer of a confirmed transfer, in
\* lamports: the least fee, and the fee the code reserves.
NetworkFees == {1, FeeLamports}

\* What a confirmed transfer of lamports leaves on its sender, who pays fee.
debit(balance, lamports, fee) == balance - lamports - fee

\* The ledger with the balance of key known to be lamports.
known(led, key, lamports) ==
  [k \in DOMAIN led \cup {key} |-> IF k = key THEN lamports ELSE led[k]]

\* The ledger with the balance of key open: a transfer that threw may or may
\* not have been carried out.
forget(led, key) == [k \in DOMAIN led \ {key} |-> led[k]]

\* The balances connection.getBalance can report for key.
heldBy(led, key, sold) ==
  IF key \in DOMAIN led /\ ~sold THEN {led[key]} ELSE Balances

\* Whether the 1.5 s delay at the end of the loop body is awaited after the
\* worker at idx of total: it is for every worker but the last, and it is
\* inside the try block, which a throw leaves.
pacingDelay(idx, total, thrown) == ~thrown /\ idx < total

\* The directory after createSubWallets(3) on all files found at start-up.
PreexistingDir == [n \in PreexistingNames |-> Preexisting[n]]

ProvisionedDir ==
  writeFile(PreexistingDir, StartTime,
            backupOf(StartTime,
                     updateBackupWithNewWallets(
                       getAllWalletsFromBackups(PreexistingDir,
                                                StartTime).subWallets,
                       generateWallets(1, 1, 2, StartTime))))

\* The directories recoverAllFunds is checked on: no snapshot, the files
\* found at start-up, and those files with one worker provisioned.
RecoveryStores == {[n \in {} |-> CorruptFile], PreexistingDir, ProvisionedDir}

\* Every variable but those of recoverAllFunds.
outsideRecovery == <<vars, listed, botVars, poll>>

RecoveryInit ==
  /\ files \in RecoveryStores
  /\ now = StartTime + 1
  /\ generated = IF files = ProvisionedDir THEN 1 ELSE 0
  /\ pc = [p \in Callers |-> "idle"]
  /\ count = [p \in Callers |-> 0]
  /\ existing = [p \in Callers |-> <<>>]
  /\ newWallets = [p \in Callers |-> <<>>]
  /\ timestamp = [p \in Callers |-> 0]
  /\ returned = NoReturn
  /\ base = [p \in Callers |-> NoReturn]
  /\ overlapped = [p \in Callers |-> FALSE]
  /\ OutsideStoreIdle

\* recoverAllFunds(key, token) is called: the credential is checked and
\* decoded, then getAllWallets is awaited.
callRecoverAllFunds(key, token) ==
  /\ recoverPc \in {"idle", "done"}
  /\ mainWalletPrivateKey' = key
  /\ tokenAddress' = token
  /\ recoverWallets' = <<>>
  /\ workerIndex' = 1
  /\ current' = NoWorker
  /\ transactions' = 0
  /\ totalRecovered' = 0
  /\ effects' = NoEffects
  /\ transfers' = <<>>
  /\ started' = <<>>
  /\ outcomes' = <<>>
  /\ follows' = (/\ recoverPc = "done"
                 /\ recovery.success
                 /\ \A k \in DOMAIN outcomes :
                      /\ outcomes[k].fault = "none"
                      /\ outcomes[k].publicKey \in DOMAIN ledger)
  /\ UNCHANGED ledger
  /\ IF tooShort(key)
     THEN /\ recoverPc' = "done"
          /\ recovery' = [done |-> TRUE, success |-> FALSE,
                          recoveredAmount |-> 0, transactions |-> 0,
                          error |-> "Invalid main wallet private key"]
     ELSE IF ~decodes(key)
     THEN /\ recoverPc' = "done"
          /\ recovery' = [done |-> TRUE, success |-> FALSE,
                          recoveredAmount |-> 0, transactions |-> 0,
                          error |-> "error.message"]
     ELSE /\ recoverPc' = "reading"
          /\ recovery' = NoRecovery
  /\ UNCHANGED outsideRecovery

\* getAllWallets returns.
readWallets ==
  /\ recoverPc = "reading"
  /\ recoverPc' = "loop"
  /\ recoverWallets' = getAllWallets(files, TRUE, now).subWallets
  /\ effects' = [effects EXCEPT !.reads = @ + 1]
  /\ UNCHANGED <<mainWalletPrivateKey, tokenAddress, workerIndex, current,
                 transactions, totalRecovered, recovery, transfers, started,
                 outcomes, ledger, follows>>
  /\ UNCHANGED outsideRecovery

\* The loop body begins for wallets.subWallets[i]: the worker key is decoded
\* and, with a token address, the worker's tokens are sold (a failure of the
\* sale is caught and changes nothing).  balance is what the ledger holds for
\* the worker when it is queried, fault the call that will throw.  The
\* balance is the one the call before left, unless a deposit was made since
\* or this call's sale credits the worker.
startWorker(balance, fault, sold) ==
  LET wallet == recoverWallets[workerIndex]
  IN /\ recoverPc = "loop"
     /\ workerIndex <= Len(recoverWallets)
     /\ balance \in heldBy(ledger, wallet.publicKey, sold)
     /\ fault \in {"send", "confirm"} => shouldTransfer(balance)
     /\ sold => (tokenAddress /\ fault # "decode")
     /\ started' = Append(started, wallet.publicKey)
     /\ IF fault = "decode"
        THEN /\ outcomes' = Append(outcomes,
                                   [publicKey |-> wallet.publicKey,
                                    balance |-> balance, fault |-> fault,
                                    swept |-> FALSE, sold |-> FALSE,
                                    paced |-> pacingDelay(workerIndex,
                                                          Len(recoverWallets),
                                                          TRUE)])
             /\ workerIndex' = afterThrow(workerIndex, Len(recoverWallets))
             /\ UNCHANGED <<recoverPc, current, transactions>>
        ELSE /\ recoverPc' = "worker"
             /\ current' = [balance |-> balance, fault |-> fault,
                             sold |-> sold]
             /\ transactions' = transactions + (IF sold THEN 1 ELSE 0)
             /\ UNCHANGED <<outcomes, workerIndex>>
     /\ UNCHANGED <<mainWalletPrivateKey, tokenAddress, recoverWallets,
                    totalRecovered, recovery, effects, transfers, ledger,
                    follows>>
     /\ UNCHANGED outsideRecovery

\* The rest of the loop body: the balance is queried and, above the dust
\* threshold, transferLamports are transferred to the owner and confirmed;
\* totalRecovered grows by transferableAmount, the double balance - feeInSol
\* (kept here in lamports: it differs from balance - 1000 lamports by less
\* than a millionth of a lamport).
finishWorker ==
  LET wallet == recoverWallets[workerIndex]
      balance == IF current.fault = "balance" THEN 0 ELSE current.balance
      submitted == shouldTransfer(balance) /\ current.fault # "send"
      confirmed == submitted /\ current.fault # "confirm"
      transferableAmount == balance - FeeLamports
      thrown == shouldTransfer(balance) /\ ~confirmed
  IN /\ recoverPc = "worker"
     /\ recoverPc' = "loop"
     /\ effects' = [effects EXCEPT !.queries = @ + 1]
     /\ transfers' = IF submitted
                     THEN Append(transfers, [from |-> wallet.publicKey,
                                             lamports |->
                                               transferLamports(balance)])
                     ELSE transfers
     /\ transactions' = transactions + (IF confirmed THEN 1 ELSE 0)
     /\ totalRecovered' = totalRecovered
                            + (IF confirmed THEN transferableAmount ELSE 0)
     /\ outcomes' = Append(outcomes,
                           [publicKey |-> wallet.publicKey,
                            balance |-> current.balance,
                            fault |-> current.fault, swept |-> confirmed,
                            sold |-> current.sold,
                            paced |-> pacingDelay(workerIndex,
                                                  Len(recoverWallets),
                                                  thrown)])
     /\ workerIndex' = IF thrown
                       THEN afterThrow(workerIndex, Len(recoverWallets))
                       ELSE nextWorker(workerIndex)
     /\ current' = NoWorker
     /\ \E fee \in (IF confirmed THEN NetworkFees ELSE {0}) :
          ledger' = IF thrown
                    THEN forget(ledger, wallet.publicKey)
                    ELSE known(ledger, wallet.publicKey,
                                IF confirmed
                               THEN debit(current.balance,
                                           transferLamports(balance), fee)
                               ELSE current.balance)
     /\ UNCHANGED <<mainWalletPrivateKey, tokenAddress, recoverWallets,
                    recovery, started, follows>>
     /\ UNCHANGED outsideRecovery

\* The loop has ended: { success: true, recoveredAmount, transactions }.
returnRecovered ==
  /\ recoverPc = "loop"
  /\ workerIndex > Len(recoverWallets)
  /\ recoverPc' = "done"
  /\ recovery' = [done |-> TRUE, success |-> TRUE,
                  recoveredAmount |-> totalRecovered,
                  transactions |-> transactions, error |-> "none"]
  /\ UNCHANGED <<mainWalletPrivateKey, tokenAddress, recoverWallets,
                 workerIndex, current, transactions, totalRecovered, effects,
                 transfers, started, outcomes, ledger, follows>>
  /\ UNCHANGED outsideRecovery

\* Between two calls lamports are sent to the workers from outside
\* recoverAllFunds: what the ledger holds for them is open again.
deposit ==
  /\ recoverPc \in {"idle", "done"}
  /\ ledger # NoLedger
  /\ ledger' = NoLedger
  /\ UNCHANGED <<recoverPc, mainWalletPrivateKey, tokenAddress,
                 recoverWallets, workerIndex, current, transactions,
                 totalRecovered, recovery, effects, transfers, started,
                 outcomes, follows>>
  /\ UNCHANGED outsideRecovery

RecoveryNext ==
  \/ \E key \in Credentials, token \in BOOLEAN :
       callRecoverAllFunds(key, token)
  \/ readWallets
  \/ \E balance \in Balances \cup {ledger[k] : k \in DOMAIN ledger},
        fault \in Faults, sold \in BOOLEAN :
       startWorker(balance, fault, sold)
  \/ finishWorker
  \/ returnRecovered
  \/ deposit

RecoverySpec == RecoveryInit /\ [][RecoveryNext]_allVars

\* The credential of the call is an encoded secret key of full length.
ValidCredential ==
  mainWalletPrivateKey.length >= MinKeyLength /\ mainWalletPrivateKey.decodable

\* The sum of balance - fee over the first k ended workers that were swept.
RECURSIVE SweptAmount(_, _)
SweptAmount(outs, k) ==
  IF k = 0 THEN 0
  ELSE SweptAmount(outs, k - 1)
         + (IF outs[k].swept THEN outs[k].balance - FeeLamports ELSE 0)

\* C12: recoverAllFunds never aborts the batch when one worker fails.
\* Whatever workers throw, the call returns success=true, every worker was
\* processed, every worker that did not throw and holds more than the dust
\* threshold was swept by a transfer of its transferLamports, and
\* recoveredAmount is the sum of the swept workers' transferableAmount.
C12_BatchNeverAborted ==
  (recovery.done /\ ValidCredential) =>
    /\ recovery.success
    /\ Len(outcomes) = Len(recoverWallets)
    /\ \A k \in 1..Len(outcomes) :
         (outcomes[k].fault = "none" /\ outcomes[k].balance > DustLamports) =>
           /\ outcomes[k].swept
           /\ \E t \in 1..Len(transfers) :
                transfers[t] = [from |-> outcomes[k].publicKey,
                                lamports |->
                                  transferLamports(outcomes[k].balance)]
    /\ recovery.recoveredAmount = SweptAmount(outcomes, Len(outcomes))

\* C12 witness: of three workers the second threw, the first and the third
\* were swept and their amounts are in recoveredAmount.
C12_Witness ==
  /\ recovery.done /\ recovery.success
  /\ Len(outcomes) = 3
  /\ outcomes[1].swept
  /\ outcomes[2].fault \in {"decode", "send", "confirm"}
  /\ outcomes[3].swept
  /\ recovery.recoveredAmount
       = (outcomes[1].balance - FeeLamports) + (outcomes[3].balance - FeeLamports)

\* C13: when every worker has zero balance, or there is no worker,
\* recoverAllFunds submits no transfer and returns success=true with
\* recoveredAmount = 0.
C13_NothingToRecover ==
  (/\ recovery.done
   /\ ValidCredential
   /\ \A k \in 1..Len(outcomes) : outcomes[k].balance = 0) =>
    /\ transfers = <<>>
    /\ recovery.success
    /\ recovery.recoveredAmount = 0

\* C13 witness: a call over several workers, all with zero balance, has
\* queried their balances and returned.
C13_Witness ==
  /\ recovery.done /\ recovery.success
  /\ Len(outcomes) >= 2
  /\ effects.queries >= 2
  /\ \A k \in 1..Len(outcomes) : outcomes[k].balance = 0

\* C14 as stated: a credential that is empty or shorter than 50 characters
\* makes recoverAllFunds return success=false before any snapshot read,
\* balance query or transfer, and nothing else makes it return success=false.
C14_OnlyShortCredentialFails ==
  recovery.done =>
    /\ mainWalletPrivateKey.length < MinKeyLength =>
         (~recovery.success /\ effects = NoEffects /\ transfers = <<>>)
    /\ ~recovery.success => mainWalletPrivateKey.length < MinKeyLength

\* C14, amended: a credential that is empty, shorter than 50 characters or
\* not the encoding of a secret key makes recoverAllFunds return
\* success=false before any snapshot read, balance query or transfer, and
\* nothing else makes it return success=false.
C14_OnlyInvalidCredentialFails ==
  recovery.done =>
    /\ ~ValidCredential =>
         (~recovery.success /\ effects = NoEffects /\ transfers = <<>>)
    /\ ~recovery.success => ~ValidCredential

\* C14 witness: a call with a credential of 49 characters has returned
\* success=false without a read or a query.
C14_Witness ==
  /\ recovery.done /\ ~recovery.success
  /\ mainWalletPrivateKey.length = MinKeyLength - 1
  /\ recovery.error = "Invalid main wallet private key"
  /\ effects = NoEffects

\* The public keys of the workers whose processing has ended.
Processed == [k \in 1..Len(outcomes) |-> outcomes[k].publicKey]

\* C15: one recoverAllFunds call processes every worker of the reconciled
\* set over all snapshots, each once, in reconciled order, one after
\* another: at most one worker is under way, and it is the next of the
\* reconciled set after those that have ended.
C15_EveryWorkerOnceInOrder ==
  LET reconciledKeys == PublicKeys(Reconciled.subWallets)
  IN /\ Len(started) - Len(outcomes) = (IF recoverPc = "worker" THEN 1 ELSE 0)
     /\ Processed = SubSeq(started, 1, Len(outcomes))
     /\ Len(started) <= Len(reconciledKeys)
     /\ started = SubSeq(reconciledKeys, 1, Len(started))
     /\ (recovery.done /\ recovery.success) =>
          /\ Processed = reconciledKeys
          /\ KeysIn(outcomes) = StoredKeys

\* C15 witness: a call has returned after processing a worker that the
\* newest snapshot does not list.
C15_Witness ==
  /\ recovery.done /\ recovery.success
  /\ Len(outcomes) >= 2
  /\ \E k \in 1..Len(outcomes) :
       outcomes[k].publicKey \notin KeysIn(Listing[1].data.subWallets)

\* ---------------------------------------------------------- the trading bot
MaxWallets == 2   \* largest config.numberOfSubWallets
MaxStarts == 2    \* start() calls that may get past the checks of start()
MaxCycles == 2    \* a loop begins no iteration once cyclesCompleted is here
MaxStops == 1     \* cleanupFundsInBackground invocations under way at once

\* Amounts in lamports.
BuyAmount == 1000000        \* config.buyAmount (0.001 SOL)
TransferMargin == 10000     \* buyAmount + 0.00001
FeeBuffer == 10000          \* totalNeeded = amountPerWallet * n + 0.00001
TransferBuffer == 500000    \* currentBalanceSOL < amountPerWallet + 0.0005
LedgerFee == 5000           \* what the ledger charges the sender of a transfer

\* A license key: whether it starts with 'VB-', splits into payload and
\* signature, carries the HMAC of its payload, has a payload that is JSON,
\* and the exp of that payload.
LicenseKey(prefix, parts, signed, json, exp) ==
  [prefix |-> prefix, parts |-> parts, signed |-> signed, json |-> json,
   exp |-> exp]

InvalidLicenses ==
  {LicenseKey(FALSE, TRUE, TRUE, TRUE, StartTime + MaxMinted),
   LicenseKey(TRUE, FALSE, TRUE, TRUE, StartTime + MaxMinted),
   LicenseKey(TRUE, TRUE, FALSE, TRUE, StartTime + MaxMinted),
   LicenseKey(TRUE, TRUE, TRUE, FALSE, StartTime + MaxMinted),
   LicenseKey(TRUE, TRUE, TRUE, TRUE, StartTime - 1)}

\* Licenses that are valid at start-up: one expires with the first
\* millisecond that passes, one outlasts every run.
IssuedLicenses ==
  {LicenseKey(TRUE, TRUE, TRUE, TRUE, StartTime),
   LicenseKey(TRUE, TRUE, TRUE, TRUE, StartTime + MaxMinted)}

\* Variant: the expiry of the payload is not looked at.
validateWithoutExpiry(licenseKey, clock) ==
  IF ~licenseKey.prefix
  THEN [valid |-> FALSE, error |-> "Invalid license key format"]
  ELSE IF ~licenseKey.parts
  THEN [valid |-> FALSE, error |-> "Malformed license key"]
  ELSE IF ~licenseKey.signed
  THEN [valid |-> FALSE, error |-> "Invalid license key signature"]
  ELSE IF ~licenseKey.json
  THEN [valid |-> FALSE, error |-> "Failed to validate license key"]
  ELSE [valid |-> TRUE, error |-> "none"]

\* LicenseManager.validateLicenseKey
validateLicenseKey(licenseKey, clock) ==
  IF ~licenseKey.prefix
  THEN [valid |-> FALSE, error |-> "Invalid license key format"]
  ELSE IF ~licenseKey.parts
  THEN [valid |-> FALSE, error |-> "Malformed license key"]
  ELSE IF ~licenseKey.signed
  THEN [valid |-> FALSE, error |-> "Invalid license key signature"]
  ELSE IF ~licenseKey.json
  THEN [valid |-> FALSE, error |-> "Failed to validate license key"]
  ELSE IF clock > licenseKey.exp
  THEN [valid |-> FALSE, error |-> "License key expired"]
  ELSE [valid |-> TRUE, error |-> "none"]

\* config.sessionDuration of every config, in clock milliseconds.
SessionDuration == 1

\* A TradingConfig.
TradingConfig(licenseKey, key, token, target) ==
  [set |-> TRUE, licenseKey |-> licenseKey, mainWalletPrivateKey |-> key,
   tokenAddress |-> token, numberOfSubWallets |-> target,
   sessionDuration |-> SessionDuration]

OwnerKey == [length |-> 88, decodable |-> TRUE]
BrokenKey == [length |-> 88, decodable |-> FALSE]

\* The configs start() is called with: every number of sub-wallets under
\* the license that outlasts the run, every other license with one
\* sub-wallet, and a bad owner key and a bad token address.
Configs ==
  {TradingConfig(LicenseKey(TRUE, TRUE, TRUE, TRUE, StartTime + MaxMinted),
                 OwnerKey, TRUE, target) : target \in 0..MaxWallets}
  \cup {TradingConfig(lic, OwnerKey, TRUE, 1) :
          lic \in InvalidLicenses \cup IssuedLicenses}
  \cup {TradingConfig(LicenseKey(TRUE, TRUE, TRUE, TRUE, StartTime + MaxMinted),
                      BrokenKey, TRUE, 1),
        TradingConfig(LicenseKey(TRUE, TRUE, TRUE, TRUE, StartTime + MaxMinted),
                      OwnerKey, FALSE, 1)}

\* Variant: the running flag is not looked at.
neverRunning(running) == FALSE

\* if (this.isRunning) return { success: false, error: 'Bot is already running' }
alreadyRunning(running) == running

\* The value start() returns.
StartReturn(success, error, detail, licenseKey) ==
  [returned |-> TRUE, success |-> success, error |-> error,
   detail |-> detail, licenseKey |-> licenseKey]

\* resetStats() followed by this.stats.startTime = Date.now()
resetStats(clock) ==
  [cyclesCompleted |-> 0, startTime |-> clock, activeWallets |-> 0,
   successRate |-> 0]

\* Every variable but those of the bot and the two of the store that
\* provisioning changes.
outsideBot == <<pc, count, existing, newWallets, timestamp, returned, base,
                overlapped, listed, recoveryVars, poll>>

\* A start() that is not turned away as already running follows the last
\* stop().
superseded(result) == [result EXCEPT !.latest = FALSE]

\* start(cfg) is called and runs to its first await: the running flag and
\* the license are checked, the config is stored, the stats are reset and
\* the owner key is decoded.
callStart(cfg) ==
  LET licenseValidation == validateLicenseKey(cfg.licenseKey, now)
  IN /\ startPc = "idle"
     /\ IF alreadyRunning(isRunning)
        THEN /\ startResult' = StartReturn(FALSE, "Bot is already running",
                                           "none", cfg.licenseKey)
             /\ UNCHANGED <<isRunning, config, stats, startPc, stopResult>>
        ELSE IF ~licenseValidation.valid
        THEN /\ startResult' = StartReturn(FALSE, "Invalid license: ",
                                           licenseValidation.error,
                                           cfg.licenseKey)
             /\ stopResult' = superseded(stopResult)
             /\ UNCHANGED <<isRunning, config, stats, startPc>>
        ELSE IF ~decodes(cfg.mainWalletPrivateKey)
        THEN /\ config' = cfg
             /\ stats' = resetStats(now)
             /\ isRunning' = FALSE
             /\ startResult' = StartReturn(FALSE, "error.message",
                                           "bs58.decode", cfg.licenseKey)
             /\ stopResult' = superseded(stopResult)
             /\ UNCHANGED startPc
        ELSE /\ timers + Len(loops) < MaxStarts
             /\ config' = cfg
             /\ stats' = resetStats(now)
             /\ startPc' = "provisioning"
             /\ stopResult' = superseded(stopResult)
             /\ UNCHANGED <<isRunning, startResult>>
     /\ UNCHANGED <<activeSubWallets, timers, loops, funding, unwinds>>
     /\ UNCHANGED <<files, now, generated>>
     /\ UNCHANGED outsideBot

\* WalletManager.createSubWallets(cnt) run from call to return on directory
\* dir, with minted key pairs generated before and the clock at clock;
\* stored tells whether fs.writeFile succeeds when it is reached.
createSubWallets(dir, minted, clock, cnt, stored) ==
  LET existingWallets == getAllWalletsFromBackups(dir, clock)
      currentSubWalletCount == Len(existingWallets.subWallets)
      toCreate == walletsToCreate(cnt, currentSubWalletCount)
      created == generateWallets(minted + 1, toCreate, currentSubWalletCount,
                                 clock)
      allWallets == updateBackupWithNewWallets(existingWallets.subWallets,
                                               created)
  IN IF hasEnough(currentSubWalletCount, cnt)
     THEN [success |-> TRUE, dir |-> dir, minted |-> minted, wrote |-> FALSE,
           wallets |-> PublicKeys(selectWallets(existingWallets.subWallets,
                                                cnt))]
     ELSE IF stored
     THEN [success |-> TRUE, minted |-> minted + toCreate, wrote |-> TRUE,
           dir |-> writeFile(dir, clock, backupOf(clock, allWallets)),
           wallets |-> PublicKeys(selectWallets(
                                    existingWallets.subWallets \o created,
                                    cnt))]
     ELSE [success |-> FALSE, dir |-> dir, minted |-> minted + toCreate,
           wrote |-> FALSE, wallets |-> <<>>]

\* this.subWallets.push(...result.wallets) when the call succeeded.
pushWallets(list, result) ==
  IF result.success THEN list \o result.wallets ELSE list

\* config.numberOfSubWallets - this.subWallets.length when wallets are
\* missing.  No call is made when none is missing, which has the effect of
\* a call for 0 wallets: nothing is written and nothing is returned.
stillNeeded(target, have) == IF have < target THEN target - have ELSE 0

\* start() resumes after getAllWallets and runs up to distributeFunds:
\* createSubWallets is called for all wallets when none exists, for the
\* missing ones when some exist, and once more when the list is still too
\* short.  stored1 and stored2 tell whether the first and the second call
\* can write.  A millisecond passes when a snapshot was written.
provision(stored1, stored2) ==
  /\ startPc = "provisioning"
  /\ \E allWallets \in
          {PublicKeys(getAllWallets(files, TRUE, now).subWallets)} :
     \E first \in
          {createSubWallets(files, generated, now,
                            stillNeeded(config.numberOfSubWallets,
                                        Len(allWallets)), stored1)} :
     \E retry \in
          {createSubWallets(first.dir, first.minted, now,
                            stillNeeded(config.numberOfSubWallets,
                                        Len(pushWallets(allWallets, first))),
                            stored2)} :
       IF Len(allWallets) = 0 /\ ~first.success
          THEN /\ first.minted <= MaxMinted
               /\ files' = first.dir
               /\ generated' = first.minted
               /\ UNCHANGED now
               /\ isRunning' = FALSE
               /\ startPc' = "idle"
               /\ startResult' = StartReturn(FALSE, "error.message",
                                             "createSubWallets",
                                             config.licenseKey)
               /\ UNCHANGED <<activeSubWallets, stats>>
          ELSE /\ retry.minted <= MaxMinted
               /\ files' = retry.dir
               /\ generated' = retry.minted
               /\ now' = IF first.wrote \/ retry.wrote THEN now + 1 ELSE now
               /\ activeSubWallets' =
                    pushWallets(pushWallets(allWallets, first), retry)
               /\ stats' = [stats EXCEPT !.activeWallets =
                              Len(pushWallets(pushWallets(allWallets, first),
                                              retry))]
               /\ startPc' = "funding"
               /\ UNCHANGED <<isRunning, startResult>>
  /\ UNCHANGED <<config, stopResult, timers, loops, funding, unwinds>>
  /\ UNCHANGED outsideBot

\* Variant: the balance of the owner is not compared with the total.
neverShort(mainBalance, totalNeeded) == FALSE

\* if (mainBalanceSOL < totalNeeded)
insufficient(mainBalance, totalNeeded) == mainBalance < totalNeeded

\* The loop of distributeToSubWallets from address k on: the balance is read
\* again, an address is skipped when the balance is below amountPerWallet +
\* 0.0005, the transfer is submitted unless sendRawTransaction rejects it
\* (the addresses in rejected), and a confirmed transfer funds the wallet.
RECURSIVE transferFrom(_, _, _, _, _)
transferFrom(currentBalance, addresses, amountPerWallet, rejected, k) ==
  IF k > Len(addresses) THEN <<>>
  ELSE IF currentBalance < amountPerWallet + TransferBuffer \/ k \in rejected
  THEN transferFrom(currentBalance, addresses, amountPerWallet, rejected,
                    k + 1)
  ELSE <<addresses[k]>> \o
       transferFrom(currentBalance - amountPerWallet - LedgerFee, addresses,
                    amountPerWallet, rejected, k + 1)

\* WalletManager.distributeToSubWallets with a decodable owner key.
distributeToSubWallets(mainBalance, subWalletAddresses, amountPerWallet, rejected) ==
  LET totalNeeded == amountPerWallet * Len(subWalletAddresses) + FeeBuffer
      fundedWallets == transferFrom(mainBalance, subWalletAddresses,
                                    amountPerWallet, rejected, 1)
  IN IF insufficient(mainBalance, totalNeeded)
     THEN [success |-> FALSE, error |-> "Insufficient balance",
           fundedWallets |-> <<>>]
     ELSE [success |-> Len(fundedWallets) > 0, error |-> "undefined",
           fundedWallets |-> fundedWallets]

\* Balances of the owner on the ledger when funding begins: just below and
\* exactly the total of the first check, and enough for every transfer.
OwnerBalances(workers) ==
  {(BuyAmount + TransferMargin) * workers + FeeBuffer - 1,
   (BuyAmount + TransferMargin) * workers + FeeBuffer,
   (BuyAmount + TransferMargin + LedgerFee) * workers + TransferBuffer}

\* start() resumes in distributeFunds and runs to its return: the funds
\* are distributed, the token address is validated, the running flag is
\* set and the first cycle is scheduled.
fund(mainBalance, rejected) ==
  LET result == distributeToSubWallets(mainBalance, activeSubWallets,
                                       BuyAmount + TransferMargin, rejected)
      distributed == result.success /\ Len(result.fundedWallets) > 0
  IN /\ startPc = "funding"
     /\ funding' = [called |-> TRUE, balance |-> mainBalance,
                    submitted |-> result.fundedWallets]
     /\ startPc' = "idle"
     /\ IF ~distributed
        THEN /\ isRunning' = FALSE
             /\ startResult' = StartReturn(FALSE, "Fund distribution failed: ",
                                           result.error, config.licenseKey)
             /\ UNCHANGED timers
        ELSE IF ~config.tokenAddress
        THEN /\ isRunning' = FALSE
             /\ startResult' = StartReturn(FALSE, "Invalid token address: ",
                                           "none", config.licenseKey)
             /\ UNCHANGED timers
        ELSE /\ isRunning' = TRUE
             /\ timers' = timers + 1
             /\ startResult' = StartReturn(TRUE, "none", "none",
                                           config.licenseKey)
     /\ UNCHANGED <<config, stats, activeSubWallets, stopResult, loops,
                    unwinds>>
     /\ UNCHANGED <<files, now, generated>>
     /\ UNCHANGED outsideBot

\* A cleanupFundsInBackground invocation: where it is suspended (phase), at
\* which worker of the array it iterates, counted from 1, that array
\* (this.subWallets when the for loop began), the workers whose executeSell
\* it has called, and whether a call of it has failed so far.  Phases:
\* "selling" while executeSell for the worker is awaited, "timer" while the
\* 5 s timer is pending, "recovering" while recoverAllFunds is awaited.
UnwindAt(phase, worker, wallets, attempted, failed) ==
  [phase |-> phase, worker |-> worker, wallets |-> wallets,
   attempted |-> attempted, failed |-> failed]

\* cleanupFundsInBackground up to its first await: the executeSell of the
\* first worker, or with no worker the 5 s timer.
beginUnwind(wallets) ==
  IF Len(wallets) > 0
  THEN UnwindAt("selling", 1, wallets, <<wallets[1]>>, FALSE)
  ELSE UnwindAt("timer", 0, wallets, <<>>, FALSE)

\* Variant: the for loop is left when a sell fails.
stopAtFailedSell(record, success) ==
  IF success /\ record.worker < Len(record.wallets)
  THEN UnwindAt("selling", record.worker + 1, record.wallets,
                Append(record.attempted, record.wallets[record.worker + 1]),
                record.failed)
  ELSE UnwindAt("timer", 0, record.wallets, record.attempted,
                record.failed \/ ~success)

\* After executeSell of a worker returned (success) or returned a failure
\* or threw: executeSell for the next worker of the array, or after the
\* last the 5 s timer.
afterUnwindSell(record, success) ==
  IF record.worker < Len(record.wallets)
  THEN UnwindAt("selling", record.worker + 1, record.wallets,
                Append(record.attempted, record.wallets[record.worker + 1]),
                record.failed \/ ~success)
  ELSE UnwindAt("timer", 0, record.wallets, record.attempted,
                record.failed \/ ~success)

\* Variant: stopping a bot that is not running is reported as an error.
stopOnlyWhenRunning(running, launched) ==
  [returned |-> TRUE, success |-> running, unwind |-> launched,
   latest |-> TRUE]

\* The value stop() returns.
StopReturn(running, launched) ==
  [returned |-> TRUE, success |-> TRUE, unwind |-> launched, latest |-> TRUE]

\* stop(): the running flag is cleared, and with a config set
\* cleanupFundsInBackground is launched and not awaited; it runs up to its
\* first await inside the call.  intervalId and sessionTimeoutId are never
\* set, so no timer is cleared.  The statements of the try block are event
\* emissions and the launch of an async function: the catch block, which
\* clears the flag and returns success too, is not entered.
stop ==
  /\ config.set => Len(unwinds) < MaxStops
  /\ isRunning' = FALSE
  /\ stopResult' = StopReturn(isRunning, config.set)
  /\ unwinds' = IF config.set
                THEN Append(unwinds, beginUnwind(activeSubWallets))
                ELSE unwinds
  /\ UNCHANGED <<config, stats, activeSubWallets, startPc, startResult,
                 timers, loops, funding>>
  /\ UNCHANGED <<files, now, generated>>
  /\ UNCHANGED outsideBot

\* The frame of a step of a cleanupFundsInBackground invocation.
unwindFrame ==
  /\ UNCHANGED <<isRunning, config, stats, activeSubWallets, startPc,
                 startResult, stopResult, timers, loops, funding>>
  /\ UNCHANGED <<files, now, generated>>
  /\ UNCHANGED outsideBot

\* executeSell of a worker returns to cleanupFundsInBackground.
endUnwindSell(u, success) ==
  /\ unwinds[u].phase = "selling"
  /\ unwinds' = [unwinds EXCEPT ![u] = afterUnwindSell(unwinds[u], success)]
  /\ unwindFrame

\* The 5 s timer of cleanupFundsInBackground fires: recoverAllFunds is
\* called with the owner key and the token address of this.config.
unwindTimerFires(u) ==
  /\ unwinds[u].phase = "timer"
  /\ unwinds' = [unwinds EXCEPT ![u].phase = "recovering"]
  /\ unwindFrame

\* recoverAllFunds returns to the timer callback or throws: the outcome
\* is logged and the invocation is over.
recoveryReturns(u) ==
  /\ unwinds[u].phase = "recovering"
  /\ unwinds' = SubSeq(unwinds, 1, u - 1)
                  \o SubSeq(unwinds, u + 1, Len(unwinds))
  /\ unwindFrame

\* An executeTradingCycle invocation: where it is suspended (phase), at which
\* worker, counted from 1, and buyResults and sellResults.
\* Phases: "buying" and "selling" while the call for the worker is awaited,
\* "buy" and "sell" in the delay before the worker, "pause" between the two
\* phases, "wait" before the next iteration, "caught" in the delay of the
\* catch block, "ended" after the while loop.
LoopAt(phase, worker, buyResults, sellResults) ==
  [phase |-> phase, worker |-> worker, buyResults |-> buyResults,
   sellResults |-> sellResults]

\* A new iteration of the while loop up to its first await.
enterIteration(total) ==
  IF total > 0 THEN LoopAt("buying", 1, <<>>, <<>>)
  ELSE LoopAt("pause", 0, <<>>, <<>>)

\* Variant: a worker counts when its buy succeeded.
boughtTrades(buyResults, sellResults, total) ==
  Cardinality({w \in 1..total : w <= Len(buyResults) /\ buyResults[w]})

\* successfulTrades after the counting loop: the workers w with
\* buyResults[w] && sellResults[w]; a missing entry is undefined.
successfulTrades(buyResults, sellResults, total) ==
  Cardinality({w \in 1..total :
                 /\ w <= Len(buyResults) /\ buyResults[w]
                 /\ w <= Len(sellResults) /\ sellResults[w]})

\* (successfulTrades / this.subWallets.length) * 100, or 0 without workers;
\* in whole percent, rounded down.
successRate(trades, total) ==
  IF total > 0 THEN (trades * 100) \div total ELSE 0

\* this.stats.cyclesCompleted++ and the new successRate.
countCycle(record, trades, total) ==
  [record EXCEPT !.cyclesCompleted = record.cyclesCompleted + 1,
                 !.successRate = successRate(trades, total)]

\* From the end of the sell loop to the next await or the end of the while
\* loop: the cycle is counted, and the loop waits when the flag is set,
\* with buyResults and sellResults still in scope.
completeIteration(running, buyResults, sellResults) ==
  IF running THEN LoopAt("wait", 0, buyResults, sellResults)
  ELSE LoopAt("ended", 0, <<>>, <<>>)

\* After the buy call of worker returned: the delay before the next worker,
\* the pause before the sells, or, with the flag cleared, through both
\* break statements to the end of the while loop.
afterBuy(worker, total, running, buyResults, sellResults) ==
  IF running /\ worker < total
  THEN LoopAt("buy", worker + 1, buyResults, sellResults)
  ELSE IF running THEN LoopAt("pause", 0, buyResults, sellResults)
  ELSE completeIteration(running, buyResults, sellResults)

\* Variant: a sell is followed by the buy of the next worker.
buyAfterSell(worker, total, running, buyResults, sellResults) ==
  IF running /\ worker < total
  THEN LoopAt("buy", worker + 1, buyResults, sellResults)
  ELSE completeIteration(running, buyResults, sellResults)

\* After the sell call of worker returned: the delay before the next
\* worker, or the end of the iteration.
afterSell(worker, total, running, buyResults, sellResults) ==
  IF running /\ worker < total
  THEN LoopAt("sell", worker + 1, buyResults, sellResults)
  ELSE completeIteration(running, buyResults, sellResults)

\* Variant: an exception ends the loop.
exitOnError(running) == LoopAt("ended", 0, <<>>, <<>>)

\* The catch block of the while loop: the error is logged, and with the
\* flag set the loop waits 5 s; else the while condition ends the loop.
catchError(running) ==
  IF running THEN LoopAt("caught", 0, <<>>, <<>>)
  ELSE LoopAt("ended", 0, <<>>, <<>>)

\* The stats after a loop moved from position before to position next with
\* the results at hand: a cycle is counted when it left the body of the
\* iteration at its end.
statsAfter(before, next, buyResults, sellResults) ==
  IF next.phase \in {"wait", "ended"} /\ before.phase # "wait"
  THEN countCycle(stats,
                  successfulTrades(buyResults, sellResults,
                                   Len(activeSubWallets)),
                  Len(activeSubWallets))
  ELSE stats

\* The frame of a step of a loop.
loopFrame ==
  /\ UNCHANGED <<isRunning, config, activeSubWallets, startPc, startResult,
                 stopResult, funding, unwinds>>
  /\ UNCHANGED <<files, now, generated>>
  /\ UNCHANGED outsideBot

\* The 2.5 s timer of start() fires: executeTradingCycle returns at once
\* when the flag is cleared, and otherwise enters the while loop.
timerFires ==
  /\ timers > 0
  /\ timers' = timers - 1
  /\ IF ~isRunning \/ ~config.set
     THEN UNCHANGED loops
     ELSE /\ stats.cyclesCompleted < MaxCycles
          /\ loops' = Append(loops, enterIteration(Len(activeSubWallets)))
  /\ UNCHANGED stats
  /\ loopFrame

\* The delay before the buy of a worker ends: if (!this.isRunning) break.
resumeBuy(l) ==
  LET next == IF isRunning
              THEN LoopAt("buying", loops[l].worker, loops[l].buyResults,
                          loops[l].sellResults)
              ELSE completeIteration(isRunning, loops[l].buyResults,
                                     loops[l].sellResults)
  IN /\ loops[l].phase = "buy"
     /\ loops' = [loops EXCEPT ![l] = next]
     /\ stats' = statsAfter(loops[l], next, loops[l].buyResults,
                            loops[l].sellResults)
     /\ UNCHANGED timers
     /\ loopFrame

\* getWalletBalance and executeBuy of a worker return, executeBuy with
\* success or with a failure it caught.
endBuy(l, success) ==
  LET next == afterBuy(loops[l].worker, Len(activeSubWallets), isRunning,
                       Append(loops[l].buyResults, success),
                       loops[l].sellResults)
  IN /\ loops[l].phase = "buying"
     /\ loops' = [loops EXCEPT ![l] = next]
     /\ stats' = statsAfter(loops[l], next,
                            Append(loops[l].buyResults, success),
                            loops[l].sellResults)
     /\ UNCHANGED timers
     /\ loopFrame

\* The pause between the phases ends and the sell loop is entered.
resumePause(l) ==
  LET next == IF isRunning /\ Len(activeSubWallets) > 0
              THEN LoopAt("selling", 1, loops[l].buyResults,
                          loops[l].sellResults)
              ELSE completeIteration(isRunning, loops[l].buyResults,
                                     loops[l].sellResults)
  IN /\ loops[l].phase = "pause"
     /\ loops' = [loops EXCEPT ![l] = next]
     /\ stats' = statsAfter(loops[l], next, loops[l].buyResults,
                            loops[l].sellResults)
     /\ UNCHANGED timers
     /\ loopFrame

\* The delay before the sell of a worker ends: if (!this.isRunning) break.
resumeSell(l) ==
  LET next == IF isRunning
              THEN LoopAt("selling", loops[l].worker, loops[l].buyResults,
                          loops[l].sellResults)
              ELSE completeIteration(isRunning, loops[l].buyResults,
                                     loops[l].sellResults)
  IN /\ loops[l].phase = "sell"
     /\ loops' = [loops EXCEPT ![l] = next]
     /\ stats' = statsAfter(loops[l], next, loops[l].buyResults,
                            loops[l].sellResults)
     /\ UNCHANGED timers
     /\ loopFrame

\* executeSell of a worker returns, with success or with a failure it
\* caught.
endSell(l, success) ==
  LET next == afterSell(loops[l].worker, Len(activeSubWallets), isRunning,
                        loops[l].buyResults,
                        Append(loops[l].sellResults, success))
  IN /\ loops[l].phase = "selling"
     /\ loops' = [loops EXCEPT ![l] = next]
     /\ stats' = statsAfter(loops[l], next, loops[l].buyResults,
                            Append(loops[l].sellResults, success))
     /\ UNCHANGED timers
     /\ loopFrame

\* A statement of the try block throws when the loop resumes from an await
\* of the body: the catch block runs.  No cycle is counted.
bodyThrows(l) ==
  /\ loops[l].phase \in {"buy", "buying", "pause", "sell", "selling"}
  /\ loops' = [loops EXCEPT ![l] = catchError(isRunning)]
  /\ UNCHANGED <<stats, timers>>
  /\ loopFrame

\* The delay of the catch block ends: while (this.isRunning).
resumeCaught(l) ==
  /\ loops[l].phase = "caught"
  /\ loops' = [loops EXCEPT
                 ![l] = IF isRunning
                        THEN enterIteration(Len(activeSubWallets))
                        ELSE LoopAt("ended", 0, <<>>, <<>>)]
  /\ UNCHANGED <<stats, timers>>
  /\ loopFrame

\* The wait after an iteration ends: while (this.isRunning).
resumeWait(l) ==
  /\ loops[l].phase = "wait"
  /\ IF isRunning
     THEN /\ stats.cyclesCompleted < MaxCycles
          /\ loops' = [loops EXCEPT
                         ![l] = enterIteration(Len(activeSubWallets))]
     ELSE loops' = [loops EXCEPT ![l] = LoopAt("ended", 0, <<>>, <<>>)]
  /\ UNCHANGED <<stats, timers>>
  /\ loopFrame

\* The directories the bot is started on: no snapshot, and the files found
\* at start-up with two workers.
BotStores == {[n \in {} |-> CorruptFile], PreexistingDir}

BotInit ==
  /\ files \in BotStores
  /\ StoreIdle
  /\ OutsideStoreIdle

\* The calls of start() and stop(), with every config and every outcome of
\* provisioning and funding.  The timers stay pending.
StartNext ==
  \/ \E cfg \in Configs : callStart(cfg)
  \/ \E stored1 \in BOOLEAN, stored2 \in BOOLEAN : provision(stored1, stored2)
  \/ \E mainBalance \in OwnerBalances(Len(activeSubWallets)),
        rejected \in SUBSET (1..Len(activeSubWallets)) :
       fund(mainBalance, rejected)
  \/ stop

StartSpec == BotInit /\ [][StartNext]_allVars

\* The configs of the runs in which the loops are followed: a valid license,
\* a good owner key and token address.
RunConfigs ==
  {cfg \in Configs :
     /\ validateLicenseKey(cfg.licenseKey, StartTime + MaxMinted).valid
     /\ cfg.mainWalletPrivateKey = OwnerKey
     /\ cfg.tokenAddress}

\* The owner balance of those runs: enough for every transfer.
RunBalance(workers) == Max(OwnerBalances(workers))

\* start(), stop() and the loops, in runs in which every snapshot is
\* written, every transfer is confirmed and every buy and sell succeeds.
BotNext ==
  \/ \E cfg \in RunConfigs : callStart(cfg)
  \/ provision(TRUE, TRUE)
  \/ fund(RunBalance(Len(activeSubWallets)), {})
  \/ stop
  \/ timerFires
  \/ \E l \in DOMAIN loops : resumeBuy(l)
  \/ \E l \in DOMAIN loops : endBuy(l, TRUE)
  \/ \E l \in DOMAIN loops : resumePause(l)
  \/ \E l \in DOMAIN loops : resumeSell(l)
  \/ \E l \in DOMAIN loops : endSell(l, TRUE)
  \/ \E l \in DOMAIN loops : resumeWait(l)

BotSpec == BotInit /\ [][BotNext]_allVars

\* ------------------------------------------------ one session of the bot
\* The state in which a start() on directory dir with target sub-wallets,
\* called at start-up, has returned success: every snapshot was written
\* and every transfer confirmed.
RunInit ==
  \E dir \in BotStores, target \in 1..MaxWallets :
  \E allWallets \in {PublicKeys(getAllWallets(dir, TRUE, StartTime).subWallets)} :
  \E first \in
       {createSubWallets(dir, 0, StartTime,
                         stillNeeded(target, Len(allWallets)), TRUE)} :
  \E retry \in
       {createSubWallets(first.dir, first.minted, StartTime,
                         stillNeeded(target,
                                     Len(pushWallets(allWallets, first))),
                         TRUE)} :
  \E workers \in {pushWallets(pushWallets(allWallets, first), retry)} :
    /\ retry.minted <= MaxMinted
    /\ files = retry.dir
    /\ generated = retry.minted
    /\ now = IF first.wrote \/ retry.wrote THEN StartTime + 1 ELSE StartTime
    /\ pc = [p \in Callers |-> "idle"]
    /\ count = [p \in Callers |-> 0]
    /\ existing = [p \in Callers |-> <<>>]
    /\ newWallets = [p \in Callers |-> <<>>]
    /\ timestamp = [p \in Callers |-> 0]
    /\ returned = NoReturn
    /\ base = [p \in Callers |-> NoReturn]
    /\ overlapped = [p \in Callers |-> FALSE]
    /\ listed = NoListing
    /\ poll = NoPoll
    /\ RecoveryIdle
    /\ isRunning = TRUE
    /\ config = TradingConfig(LicenseKey(TRUE, TRUE, TRUE, TRUE,
                                         StartTime + MaxMinted),
                              OwnerKey, TRUE, target)
    /\ stats = [resetStats(StartTime) EXCEPT !.activeWallets = Len(workers)]
    /\ activeSubWallets = workers
    /\ startPc = "idle"
    /\ startResult = StartReturn(TRUE, "none", "none", config.licenseKey)
    /\ stopResult = NoStop
    /\ timers = 1
    /\ loops = <<>>
    /\ funding = [called |-> TRUE, balance |-> RunBalance(Len(workers)),
                  submitted |->
                    distributeToSubWallets(RunBalance(Len(workers)), workers,
                                           BuyAmount + TransferMargin,
                                           {}).fundedWallets]
    /\ unwinds = <<>>

\* A step of a loop outside its catch block, with the outcomes of its buy
\* and sell calls drawn from results.
LoopStep(results) ==
  \/ \E l \in DOMAIN loops : resumeBuy(l)
  \/ \E l \in DOMAIN loops, success \in results : endBuy(l, success)
  \/ \E l \in DOMAIN loops : resumePause(l)
  \/ \E l \in DOMAIN loops : resumeSell(l)
  \/ \E l \in DOMAIN loops, success \in results : endSell(l, success)
  \/ \E l \in DOMAIN loops : resumeWait(l)

\* The delay of the catch block of a loop ends.
CatchStep == \E l \in DOMAIN loops : resumeCaught(l)

\* One session with the loop followed through every outcome of its calls:
\* the clock, stop(), the timer of start(), the loop and its exceptions.
RunNext ==
  \/ Tick
  \/ stop
  \/ timerFires
  \/ LoopStep(BOOLEAN)
  \/ \E l \in DOMAIN loops : bodyThrows(l)
  \/ CatchStep

RunSpec == RunInit /\ [][RunNext]_allVars

\* Every external call returns and every timer fires: a loop that can take
\* a step takes one.  stop() and exceptions need not happen.
RunFairSpec ==
  /\ RunSpec
  /\ WF_allVars(timerFires)
  /\ WF_allVars(LoopStep(BOOLEAN))
  /\ WF_allVars(CatchStep)

\* A step of the cleanupFundsInBackground invocation at position u.
UnwindStepOf(u) ==
  /\ u \in DOMAIN unwinds
  /\ \/ \E success \in BOOLEAN : endUnwindSell(u, success)
     \/ unwindTimerFires(u)
     \/ recoveryReturns(u)

\* A step of a cleanupFundsInBackground invocation.
UnwindStep == \E u \in 1..MaxStops : UnwindStepOf(u)

\* One session with the background cleanups followed: stop(), the timer of
\* start(), the loop with every buy and sell succeeding, and the cleanups
\* with every outcome of their calls.
UnwindNext ==
  \/ stop
  \/ timerFires
  \/ LoopStep({TRUE})
  \/ UnwindStep

UnwindSpec == RunInit /\ [][UnwindNext]_allVars

\* Every external call returns and every timer fires.
UnwindFairSpec ==
  /\ UnwindSpec
  /\ WF_allVars(timerFires)
  /\ WF_allVars(LoopStep({TRUE}))
  /\ \A u \in 1..MaxStops : WF_allVars(UnwindStepOf(u))

\* ------------------------------------------- every operation on the store
\* WalletManager.getWalletBalances with getBalance returning balance for
\* every key: the reconciled wallets with their balances, the first owner,
\* and the total.
getWalletBalances(dir, readable, clock, balance) ==
  LET wallets == getAllWallets(dir, readable, clock)
      withBalance(list) == [i \in 1..Len(list) |->
                              [list[i] EXCEPT !.balance = balance]]
  IN [mainWallet |-> Slice0(withBalance(wallets.mainWallets), 1),
      subWallets |-> withBalance(wallets.subWallets),
      totalBalance |-> balance * wallets.totalWallets]

\* Variant: the balance refresh saves the workers it found as a snapshot.
refreshAndSave(readable, balance) ==
  /\ listed' = [op |-> "getWalletBalances", readable |-> readable,
                value |-> getWalletBalances(files, readable, now, balance)]
  /\ files' = writeFile(files, now,
                        backupOf(now, getAllWalletsFromBackups(files, now)
                                        .subWallets))
  /\ UNCHANGED <<now, generated, pc, count, existing, newWallets, timestamp,
                 returned, base, overlapped>>
  /\ UNCHANGED <<recoveryVars, botVars, poll>>

\* getWalletBalances() is called and returns.
callGetWalletBalances(readable, balance) ==
  /\ listed' = [op |-> "getWalletBalances", readable |-> readable,
                value |-> getWalletBalances(files, readable, now, balance)]
  /\ UNCHANGED outsideListing

\* No call of createSubWallets has been made or is under way.
ProvisionerIdle ==
  /\ pc = [p \in Callers |-> "idle"]
  /\ returned = NoReturn

\* One session of the bot: the first start() with every snapshot written
\* and every transfer confirmed, stop(), the timer and the loop with every
\* buy and sell succeeding.
SessionNext ==
  \/ /\ stopResult = NoStop /\ timers = 0 /\ loops = <<>>
     /\ \/ \E cfg \in RunConfigs : callStart(cfg)
        \/ provision(TRUE, TRUE)
        \/ fund(RunBalance(Len(activeSubWallets)), {})
  \/ stop
  \/ timerFires
  \/ LoopStep({TRUE})

\* Every operation that reads or writes the snapshot store, each part of
\* the program on its own: the provisioner under concurrent calls, followed
\* by the listing calls and the balance refresh; recoverAllFunds; and one
\* session of the bot.
FrameNext ==
  \/ listed = NoListing /\ RecoveryIdle /\ BotIdle /\ Next
  \/ RecoveryIdle /\ BotIdle /\ callGetAllWallets(TRUE)
  \/ /\ RecoveryIdle /\ BotIdle
     /\ \E readable \in BOOLEAN, balance \in Balances :
          callGetWalletBalances(readable, balance)
  \/ ProvisionerIdle /\ listed = NoListing /\ BotIdle /\ RecoveryNext
  \/ ProvisionerIdle /\ listed = NoListing /\ RecoveryIdle /\ SessionNext

FrameSpec == Init /\ [][FrameNext]_allVars

\* ------------------------------------- the balance polling of distributeFunds
MaxAttempts == 10        \* const maxAttempts = 10

\* The while condition is evaluated: a round of balance checks begins with
\* the first worker, or the loop is left.
whileLoop(p, wallets) ==
  IF ~p.allWalletsReady /\ p.attempts < MaxAttempts
  THEN IF wallets = <<>>
       THEN [p EXCEPT !.allWalletsReady = TRUE, !.pc = "done"]
       ELSE [p EXCEPT !.allWalletsReady = TRUE, !.wallet = 1,
                      !.pc = "balance"]
  ELSE [p EXCEPT !.pc = "done"]

\* The for loop over the workers has ended: with a short balance and the
\* running flag set, attempts is increased and the 2 s timer awaited; with
\* the flag clear the while loop is left.
afterRound(p, running, wallets) ==
  IF ~p.allWalletsReady /\ running
  THEN [p EXCEPT !.attempts = @ + 1, !.pc = "retry"]
  ELSE IF ~running
  THEN [p EXCEPT !.pc = "done"]
  ELSE whileLoop(p, wallets)

\* The frame of a step of the polling.
pollFrame ==
  /\ UNCHANGED botVars
  /\ UNCHANGED <<vars, listed, recoveryVars>>

\* distributeToSubWallets has returned success to a start() call that got
\* past the running check: with the running flag set the 3 s timer is
\* awaited, otherwise the polling loop is entered at once.
pollBegins ==
  /\ poll.pc = "idle"
  /\ poll' = IF isRunning
             THEN [poll EXCEPT !.pc = "arrive"]
             ELSE whileLoop(poll, activeSubWallets)
  /\ pollFrame

\* The 3 s timer fires.
arrived ==
  /\ poll.pc = "arrive"
  /\ poll' = whileLoop(poll, activeSubWallets)
  /\ pollFrame

\* getWalletBalance of the worker at poll.wallet returns; enough is
\* balance >= buyAmount.
balanceReturns(enough) ==
  /\ poll.pc = "balance"
  /\ poll' = IF enough /\ poll.wallet < Len(activeSubWallets)
             THEN [poll EXCEPT !.wallet = @ + 1]
             ELSE afterRound([poll EXCEPT !.allWalletsReady = enough],
                             isRunning, activeSubWallets)
  /\ pollFrame

\* The 2 s timer fires.
retried ==
  /\ poll.pc = "retry"
  /\ poll' = whileLoop(poll, activeSubWallets)
  /\ pollFrame

\* The polling of a start() call that is in distributeFunds while the bot
\* is in the state a successful start() left: called while that start()
\* was under way (the flag is set by now), or after a stop() (the flag is
\* clear).  stop() may be called at any time.
PollNext ==
  \/ pollBegins
  \/ arrived
  \/ \E enough \in BOOLEAN : balanceReturns(enough)
  \/ retried
  \/ stop

PollSpec == RunInit /\ [][PollNext]_allVars

\* The loops that have not left their while loop.
ActiveLoops == {l \in DOMAIN loops : loops[l].phase # "ended"}

\* A license that is neither invalid nor expired at clock: well-formed,
\* signed, with a readable payload whose exp has not passed.
ValidLicense(licenseKey, clock) ==
  /\ licenseKey.prefix
  /\ licenseKey.parts
  /\ licenseKey.signed
  /\ licenseKey.json
  /\ clock <= licenseKey.exp

\* What a start() that is turned away must leave alone: the running flag,
\* the config, the stats, the worker list, the timers and loops, the
\* transfers submitted, the key pairs generated and the snapshot files.
TurnedAway ==
  /\ startResult'.success = FALSE
  /\ UNCHANGED <<isRunning, config, stats, activeSubWallets, timers, loops,
                 funding, generated, files>>

\* C16: a start() whose license is invalid or expired returns success =
\* false without a transfer and without provisioning an identity, and leaves
\* isRunning, config, stats and the worker list as they were; so a config is
\* only ever stored from a license that is valid when start() is called.
C16_InvalidLicenseRejected ==
  [][/\ (startResult' # startResult /\ startResult'.error = "Invalid license: ")
          => TurnedAway
     /\ (startPc = "idle" /\ (startPc' # "idle" \/ config' # config))
          => ValidLicense(config'.licenseKey, now)]_allVars

\* A start() was turned away for its license after an earlier session had
\* set a config, stats and workers.
C16_Witness ==
  /\ startResult.error = "Invalid license: "
  /\ startResult.detail = "License key expired"
  /\ config.set
  /\ stats.startTime > 0
  /\ Len(activeSubWallets) > 0
  /\ funding.submitted # <<>>
  /\ ~isRunning

\* C17: a start() called while the bot is running returns success = false
\* with 'Bot is already running', changes nothing and schedules no further
\* loop.
C17_AlreadyRunningRejected ==
  [][(isRunning /\ startPc = "idle"
        /\ (startResult' # startResult \/ startPc' # "idle"))
       => /\ startResult'.error = "Bot is already running"
          /\ TurnedAway
          /\ UNCHANGED <<startPc, stopResult>>]_allVars

\* A start() was turned away while the bot was running with its loop.
C17_Witness ==
  /\ startResult.error = "Bot is already running"
  /\ isRunning
  /\ Len(loops) > 0
  /\ Len(activeSubWallets) > 0

\* perWorkerAmount * workerCount + feeBuffer for the worker list being
\* funded.
TotalNeeded ==
  (BuyAmount + TransferMargin) * Len(activeSubWallets) + FeeBuffer

\* C18: when the owner's balance is below perWorkerAmount * workerCount +
\* feeBuffer, distributeToSubWallets submits no transfer and start() returns
\* success = false with the shortfall message, the running flag false and no
\* loop scheduled.
C18_ShortfallStopsStart ==
  [][(startPc = "funding" /\ startPc' = "idle"
        /\ funding'.balance < TotalNeeded)
       => /\ funding'.submitted = <<>>
          /\ startResult'.success = FALSE
          /\ startResult'.error = "Fund distribution failed: "
          /\ startResult'.detail = "Insufficient balance"
          /\ isRunning' = FALSE
          /\ UNCHANGED <<timers, loops>>]_allVars

\* A start() with two workers to fund found the owner one lamport short.
C18_Witness ==
  /\ startPc = "idle"
  /\ funding.called
  /\ funding.balance = TotalNeeded - 1
  /\ Len(activeSubWallets) = MaxWallets
  /\ startResult.detail = "Insufficient balance"
  /\ ~isRunning

\* C19: in one iteration of a loop the sell calls begin only when no buy
\* call of the loop is in flight, no buy call is made after a sell call of
\* the same iteration, and the next iteration begins only from the wait
\* that ends the body of the one before.
C19_PhasesInOrder ==
  [][\A l \in DOMAIN loops :
       /\ (loops'[l].phase = "selling" /\ loops'[l] # loops[l])
            => /\ loops[l].phase \in {"pause", "sell"}
               /\ loops'[l].buyResults = loops[l].buyResults
       /\ loops'[l].phase \in {"buy", "buying"}
            => loops'[l].sellResults = <<>>
       /\ (loops'[l].phase = "buying" /\ loops[l].phase # "buying")
            => \/ /\ loops[l].phase = "buy"
                  /\ loops'[l].buyResults = loops[l].buyResults
               \/ /\ loops[l].phase \in {"wait", "caught"}
                  /\ loops'[l].buyResults = <<>>]_allVars

\* A loop is in the sell call of its last worker, after a buy call for
\* every worker and the sell of the first, in the second iteration of the
\* only loop there is.
C19_Witness ==
  \E l \in DOMAIN loops :
    /\ loops[l].phase = "selling"
    /\ loops[l].worker = MaxWallets
    /\ Len(loops[l].buyResults) = MaxWallets
    /\ Len(loops[l].sellResults) = MaxWallets - 1
    /\ stats.cyclesCompleted > 0
    /\ Len(loops) = 1

\* C20: whatever start() and stop() calls are made, at most one
\* executeTradingCycle loop is active.
C20_AtMostOneLoop == Cardinality(ActiveLoops) <= 1

\* ------------------------------------------- claims on minting (Spec)
\* A step in which caller p, having read too few workers, mints the rest
\* and starts the write.
MintBegins(p) == pc[p] = "idle" /\ pc'[p] = "writing"

\* C29: a createSubWallets(count) call that finds fewer than count workers
\* mints exactly count - existing.length identities, the i-th (from 0) with
\* index existing.length + i; when its write ends it has appended exactly
\* one snapshot, whose worker list is the existing reconciled set followed
\* by the new identities, and it returns the existing workers followed by
\* the new ones.
C29_MintsAppendsReturns ==
  [][\A p \in Callers :
       /\ MintBegins(p) =>
            /\ Len(newWallets'[p]) = count'[p] - Len(existing'[p])
            /\ existing'[p] = getAllWalletsFromBackups(files, now).subWallets
            /\ \A i \in 1..Len(newWallets'[p]) :
                 newWallets'[p][i].index = Len(existing'[p]) + (i - 1)
       /\ (WriteEnds(p) /\ returned'.success) =>
            /\ DOMAIN files' = DOMAIN files \cup {timestamp[p]}
            /\ timestamp[p] \notin DOMAIN files
            /\ \A n \in DOMAIN files : files'[n] = files[n]
            /\ PublicKeys(files'[timestamp[p]].subWallets)
                 = PublicKeys(existing[p] \o newWallets[p])
            /\ PublicKeys(returned'.wallets)
                 = PublicKeys(existing[p] \o newWallets[p])]_vars

\* ----------------------------------- claims on start and stop (StartSpec)
\* A step in which start() returns from the funding stage.
StartReturns == startPc = "funding" /\ startPc' = "idle"

Range(s) == {s[i] : i \in 1..Len(s)}

\* C30: when start() returns success, every worker of the active worker
\* list has been sent a funding transfer from the owner during that start.
C30_EveryWorkerFunded ==
  [][(StartReturns /\ startResult'.success) =>
       Range(activeSubWallets') \subseteq Range(funding'.submitted)]_allVars

\* ------------------------------------ claims on a session (RunSpec, UnwindSpec)
\* The loops suspended in a buy or sell call, the cleanups suspended in a
\* sell call or in recoverAllFunds, and the start() suspended in the
\* funding transfers.
LoopCalls == {l \in DOMAIN loops : loops[l].phase \in {"buying", "selling"}}

UnwindCalls ==
  {u \in DOMAIN unwinds : unwinds[u].phase \in {"selling", "recovering"}}

InFlight ==
  Cardinality(LoopCalls) + Cardinality(UnwindCalls)
    + (IF startPc = "funding" THEN 1 ELSE 0)

\* C21: at any time at most one operation against the venue or the ledger
\* (buy, sell, funding transfer, sweep) is in flight: a cleanup started by
\* stop() never overlaps a buy or sell call of the loop, and two cleanups
\* never overlap.
C21_OneOperationInFlight == InFlight <= 1

\* A step in which loop l counts a cycle.
CountsCycle(l) ==
  /\ loops'[l] # loops[l]
  /\ stats'.cyclesCompleted = stats.cyclesCompleted + 1

\* buyResults and sellResults of the iteration that a step of loop l ends:
\* those the loop still holds in its wait, or those it held before the step
\* with the result of the call that returned in the step.
IterationResults(l) ==
  IF loops'[l].phase = "wait"
  THEN {<<loops'[l].buyResults, loops'[l].sellResults>>}
  ELSE IF loops[l].phase = "buying"
  THEN {<<Append(loops[l].buyResults, b), loops[l].sellResults>> :
          b \in BOOLEAN}
  ELSE IF loops[l].phase = "selling"
  THEN {<<loops[l].buyResults, Append(loops[l].sellResults, b)>> :
          b \in BOOLEAN}
  ELSE {<<loops[l].buyResults, loops[l].sellResults>>}

\* The workers whose buy and whose sell are both recorded as succeeded.
BothSucceeded(results) ==
  {w \in 1..Len(activeSubWallets) :
     /\ w \in DOMAIN results[1] /\ results[1][w]
     /\ w \in DOMAIN results[2] /\ results[2][w]}

\* C22: when an iteration is counted, stats.successRate is 100 times the
\* number of workers whose buy and sell of that iteration both succeeded,
\* divided by the number of active workers (in whole percent), whatever it
\* was before; it is 0 without workers and always within 0..100.
C22_SuccessRatePerIteration ==
  [][\A l \in DOMAIN loops :
       CountsCycle(l) =>
         /\ stats'.successRate \in 0..100
         /\ \E results \in IterationResults(l) :
              IF Len(activeSubWallets) = 0
              THEN stats'.successRate = 0
              ELSE /\ stats'.successRate * Len(activeSubWallets)
                        <= 100 * Cardinality(BothSucceeded(results))
                   /\ 100 * Cardinality(BothSucceeded(results))
                        < (stats'.successRate + 1) * Len(activeSubWallets)
    ]_allVars

\* The loop waits after its second iteration, in which every buy succeeded
\* and some but not all sells did; the rate lies strictly between 0 and
\* 100.
C22_Witness ==
  \E l \in DOMAIN loops :
    /\ loops[l].phase = "wait"
    /\ stats.cyclesCompleted = 2
    /\ \A w \in DOMAIN loops[l].buyResults : loops[l].buyResults[w]
    /\ \E w \in DOMAIN loops[l].sellResults : loops[l].sellResults[w]
    /\ \E w \in DOMAIN loops[l].sellResults : ~loops[l].sellResults[w]
    /\ stats.successRate > 0
    /\ stats.successRate < 100

\* A step in which a stop() call returns.  (A stop() of a bot that has no
\* config and is not running changes nothing.)
StopReturns ==
  /\ stopResult'.returned
  /\ stopResult' # stopResult \/ Len(unwinds') > Len(unwinds)

\* C23: stop() returns success = true in every state, the running flag is
\* false when it returns, and what it returned stays success whatever the
\* calls of the cleanup it launched come to.
C23_StopAlwaysSucceeds ==
  [][/\ StopReturns => stopResult'.success /\ ~isRunning'
     /\ stopResult.returned => stopResult'.success]_allVars

\* A stop() has returned success, the cleanup it launched has met a failed
\* sell and is in recoverAllFunds, and the loop has ended.
C23_Witness ==
  /\ stopResult.returned /\ stopResult.success
  /\ ~isRunning
  /\ \E u \in DOMAIN unwinds :
       unwinds[u].failed /\ unwinds[u].phase = "recovering"
  /\ \E l \in DOMAIN loops : loops[l].phase = "ended"

\* C24: a stop() called while the bot is not running returns success and
\* is a no-op: it changes nothing of the bot and starts no cleanup and no
\* recovery, also after a start() has set a config.
C24_StopWhenIdleIsNoOp ==
  [][(StopReturns /\ ~isRunning) =>
       /\ stopResult'.success
       /\ UNCHANGED <<isRunning, config, stats, activeSubWallets, startPc,
                      startResult, timers, loops, funding, unwinds>>]_allVars

\* The cleanup at position u has not yet called recoverAllFunds.
Unwinding(u) ==
  u \in DOMAIN unwinds /\ unwinds[u].phase \in {"selling", "timer"}

\* C25: stop() returns while the cleanup it launched is at its first sell
\* call; the cleanup iterates the active worker list of the moment of the
\* stop(), calls recoverAllFunds only after it has called executeSell for
\* every worker of that list, whatever the sells returned; and when every
\* call returns and every timer fires, the oldest cleanup under way does
\* call recoverAllFunds.
C25_UnwindThenRecover ==
  /\ [][/\ StopReturns /\ config.set =>
             /\ Len(unwinds') = Len(unwinds) + 1
             /\ unwinds'[Len(unwinds')].wallets = activeSubWallets
             /\ Len(unwinds'[Len(unwinds')].attempted) <= 1
             /\ unwinds'[Len(unwinds')].phase # "recovering"
        /\ \A u \in DOMAIN unwinds :
             (/\ Len(unwinds') = Len(unwinds)
              /\ unwinds[u].phase # "recovering"
              /\ unwinds'[u].phase = "recovering") =>
                /\ unwinds'[u].wallets = unwinds[u].wallets
                /\ unwinds'[u].attempted = unwinds'[u].wallets]_allVars
  /\ Unwinding(1) ~> (1 \in DOMAIN unwinds /\ unwinds[1].phase = "recovering")

\* A cleanup launched by the stop() of a running session is in
\* recoverAllFunds after a sell call for every worker, one of which failed.
C25_Witness ==
  /\ stopResult.returned
  /\ \E u \in DOMAIN unwinds :
       /\ unwinds[u].phase = "recovering"
       /\ unwinds[u].attempted = activeSubWallets
       /\ Len(unwinds[u].attempted) = MaxWallets
       /\ unwinds[u].failed

\* stop() was called and no start() got past the running check since.
StopIsLast == stopResult.returned /\ stopResult.latest

\* This step begins the buy or the sell call of a worker in loop l.
BeginsCall(l) ==
  /\ l \in DOMAIN loops'
  /\ loops'[l].phase \in {"buying", "selling"}
  /\ l \in DOMAIN loops => loops'[l] # loops[l]

\* C26: once stop() has been called and no start() follows, no cycle loop
\* begins the buy or the sell call of a worker: a loop only lets the call
\* in flight return.
C26_NoCallAfterStop ==
  [][StopIsLast => \A l \in DOMAIN loops' : ~BeginsCall(l)]_allVars

\* Loop l takes this step.
LoopMoves(l) == l \in DOMAIN loops' /\ loops'[l] # loops[l]

\* C27: a cycle loop leaves its while loop only in a step that finds the
\* running flag cleared; with the flag set, a buy or a sell that returned
\* leaves the loop in a delay or at the next call, an exception leaves it
\* in the delay of the catch block, and after that delay the loop enters
\* the next iteration, which it does when every timer fires.
C27_LoopEndsOnlyWhenStopped ==
  /\ [][\A l \in DOMAIN loops :
          /\ (LoopMoves(l) /\ loops'[l].phase = "ended") => ~isRunning
          /\ (LoopMoves(l) /\ isRunning /\ loops[l].phase = "buying") =>
                loops'[l].phase \in {"buy", "pause", "caught"}
          /\ (LoopMoves(l) /\ isRunning /\ loops[l].phase = "selling") =>
                loops'[l].phase \in {"sell", "wait", "caught"}
          /\ (LoopMoves(l) /\ isRunning /\ loops[l].phase = "caught") =>
                loops'[l] = enterIteration(Len(activeSubWallets))]_allVars
  /\ \A l \in 1..MaxStarts :
       (l \in DOMAIN loops /\ loops[l].phase = "caught") ~>
         \/ ~isRunning
         \/ l \in DOMAIN loops /\ loops[l].phase \in {"buying", "pause"}

\* With the flag set, a loop that has counted a cycle is in the delay of
\* the catch block: an iteration after the first threw.
C27_Witness ==
  /\ isRunning
  /\ stats.cyclesCompleted >= 1
  /\ \E l \in DOMAIN loops : loops[l].phase = "caught"

\* The sessionDuration of the config has passed since stats.startTime.
SessionElapsed ==
  config.set /\ now >= stats.startTime + config.sessionDuration

C40_StopIsNeverLost == StopIsLast => ~isRunning

\* C39: a step of a loop changes stats.cyclesCompleted or stats.successRate
\* only at the end of an iteration in which a buy and a sell call were
\* made for every active worker; an iteration that stop() cut short leaves
\* both as they were.
C39_OnlyCompleteIterationsCount ==
  [][\A l \in DOMAIN loops :
       (/\ loops'[l] # loops[l]
        /\ \/ stats'.cyclesCompleted # stats.cyclesCompleted
           \/ stats'.successRate # stats.successRate) =>
         \A results \in IterationResults(l) :
           /\ Len(results[1]) = Len(activeSubWallets)
           /\ Len(results[2]) = Len(activeSubWallets)]_allVars

\* C38: when start() returns success = false, no transfer from the owner
\* to a worker was submitted during that call: a start() that fails in its
\* funding stage has submitted none, and one that fails earlier leaves the
\* record of the transfers as it was.
C38_NoTransferOnFailedStart ==
  [][/\ (StartReturns /\ ~startResult'.success) =>
          funding'.submitted = <<>>
     /\ (~StartReturns /\ startResult' # startResult
          /\ ~startResult'.success) => UNCHANGED funding]_allVars

\* C37: when start() returns success and no provisioning call has failed,
\* no public key is twice in the active worker list.
C37_NoWorkerTwice ==
  [][(StartReturns /\ startResult'.success) =>
       \A i, j \in DOMAIN activeSubWallets' :
         activeSubWallets'[i] = activeSubWallets'[j] => i = j]_allVars

\* ------------------------------------------ claims on the empty snapshot
\* C36: a snapshot with no owner and no worker that is added to the store
\* is read without error and changes neither the owners nor the workers
\* that getAllWalletsFromBackups returns.
C36_EmptySnapshotAddsNothing ==
  [][files' # files =>
       /\ \A n \in DOMAIN files' \ DOMAIN files :
            Len(readOne(files', n, now)) = 1
       /\ PublicKeys(getAllWalletsFromBackups(files', now).subWallets)
            = PublicKeys(getAllWalletsFromBackups(files, now).subWallets)
       /\ PublicKeys(getAllWalletsFromBackups(files', now).mainWallets)
            = PublicKeys(getAllWalletsFromBackups(files, now).mainWallets)
    ]_allVars

\* --------------------------------------- claims on every operation (FrameSpec)
\* The keys of the workers of the snapshots of directory dir.
KeysStored(dir) ==
  UNION {KeysIn(dir[n].subWallets) : n \in {m \in DOMAIN dir : dir[m].parseable}}

\* C35: the snapshot store changes only in a step that writes a snapshot
\* with an identity minted by the program that no snapshot held before,
\* and no snapshot is removed; a listing call, a balance refresh, a step
\* of recoverAllFunds, the funding of the workers, stop(), a step of the
\* cycle loop and a createSubWallets call that finds enough workers leave
\* the store as it is.
C35_SnapshotOnlyWhenMinted ==
  [][/\ files' # files =>
          /\ DOMAIN files \subseteq DOMAIN files'
          /\ \E key \in 1..generated' :
               key \in KeysStored(files') \ KeysStored(files)
     /\ (\/ listed' # listed
         \/ recoveryVars' # recoveryVars
         \/ funding' # funding
         \/ stopResult'.returned /\ stopResult' # stopResult
         \/ loops' # loops
         \/ returned' # returned /\ returned'.success /\ ~returned'.emitted)
          => files' = files]_allVars

\* A createSubWallets call has minted and stored an identity, and a balance
\* refresh made afterwards has returned it.
C35_Witness ==
  /\ returned.success /\ returned.emitted
  /\ listed.op = "getWalletBalances"
  /\ \E i \in DOMAIN listed.value.subWallets :
       listed.value.subWallets[i].publicKey \in 1..generated

\* ------------------------------------- claims on recovery (RecoverySpec)
\* C34: when the processing of a worker begins in recoverAllFunds, the
\* pacing delay was awaited after the worker before it, whether that worker
\* was swept, skipped as dust or failed with an exception.
C34_PacedBetweenWorkers ==
  \A k \in DOMAIN outcomes : k < Len(started) => outcomes[k].paced

\* The lamports of the confirmed transfers of the first k ended workers.
RECURSIVE ConfirmedLamports(_, _, _)
ConfirmedLamports(outs, sent, k) ==
  IF k = 0 THEN 0
  ELSE ConfirmedLamports(outs, sent, k - 1)
         + (IF outs[k].swept
            THEN (CHOOSE t \in Range(sent) : t.from = outs[k].publicKey).lamports
            ELSE 0)

\* C32: in recoverAllFunds a transfer is submitted only for a worker whose
\* balance, read in the same loop body, exceeds the dust threshold of 1000
\* lamports, and it moves that balance minus the reserved fee of 1000
\* lamports; a worker above the threshold whose calls do not fail is swept;
\* and recoveredAmount is the sum of the amounts of the confirmed transfers.
C32_SweepsBalanceMinusFee ==
  /\ \A t \in DOMAIN transfers :
       \E k \in DOMAIN outcomes :
         /\ outcomes[k].publicKey = transfers[t].from
         /\ outcomes[k].fault \notin {"decode", "balance"}
         /\ outcomes[k].balance > DustLamports
         /\ transfers[t].lamports = outcomes[k].balance - FeeLamports
  /\ \A k \in DOMAIN outcomes :
       (outcomes[k].fault = "none" /\ outcomes[k].balance > DustLamports) =>
         outcomes[k].swept
  /\ \A k \in DOMAIN outcomes :
       outcomes[k].swept =>
         \E t \in DOMAIN transfers : transfers[t].from = outcomes[k].publicKey
  /\ totalRecovered = ConfirmedLamports(outcomes, transfers, Len(outcomes))

\* C33: a recoverAllFunds call that directly follows a call that returned
\* with no failed call, with no deposit in between and no token sale of its
\* own crediting a worker, submits no transfer and returns
\* recoveredAmount = 0.
C33_SweepIsIdempotent ==
  (/\ follows
   /\ recovery.done
   /\ ValidCredential
   /\ \A k \in DOMAIN outcomes : ~outcomes[k].sold) =>
    /\ transfers = <<>>
    /\ recovery.success
    /\ recovery.recoveredAmount = 0

\* C33 witness: the second call has queried several workers, one of which
\* holds what only a confirmed sweep leaves, and has returned.
C33_Witness ==
  /\ follows
  /\ recovery.done /\ recovery.success
  /\ Len(outcomes) >= 2
  /\ effects.queries = Len(outcomes)
  /\ \A k \in DOMAIN outcomes : ~outcomes[k].sold
  /\ \E k \in DOMAIN outcomes :
       /\ outcomes[k].balance \notin Balances
       /\ outcomes[k].balance = ledger[outcomes[k].publicKey]

\* ------------------------------------------- claims on the polling (PollSpec)
\* C31: the polling of distributeFunds goes on to the warning ("some
\* wallets may not have received all funds") only after the cap of 10
\* attempts is reached: every short balance before that is followed by a
\* wait and another check.
C31_WarnsOnlyAfterTheCap ==
  (poll.pc = "done" /\ ~poll.allWalletsReady) => poll.attempts = MaxAttempts
====
